---- MODULE Spec2Model ----
(***************************************************************************)
(* Bulk e-mail campaign sender: the time normalizer and row parser, the    *)
(* per-address history ledger (email_history), the client-held Job and its *)
(* dispatch handlers (/api/send, /api/send-stream), and the cron poller     *)
(* over the scheduled_emails table.                                        *)
(*                                                                         *)
(* Instants are Date.now()-style epoch milliseconds, counted from          *)
(* ModelEpoch (a fixed UTC midnight) instead of 1970-01-01 so that they    *)
(* fit TLC's integers; every computation of the code on instants is a      *)
(* difference, a comparison or a calendar rendering, and is translated     *)
(* with the origin shifted.                                                *)
(***************************************************************************)
EXTENDS Integers, Sequences, FiniteSets, TLC

\* ------------------------------------------------------------------ text

Char(s, i) == SubSeq(s, i, i)

Digits == {"0", "1", "2", "3", "4", "5", "6", "7", "8", "9"}

DigitVal(c) ==
  CASE c = "0" -> 0 [] c = "1" -> 1 [] c = "2" -> 2 [] c = "3" -> 3
    [] c = "4" -> 4 [] c = "5" -> 5 [] c = "6" -> 6 [] c = "7" -> 7
    [] c = "8" -> 8 [] c = "9" -> 9

AllDigits(s) == \A i \in 1..Len(s) : Char(s, i) \in Digits

\* parseInt(s, 10) of a string of digits
RECURSIVE ParseInt(_)
ParseInt(s) ==
  IF Len(s) = 0 THEN 0
  ELSE 10 * ParseInt(SubSeq(s, 1, Len(s) - 1)) + DigitVal(Char(s, Len(s)))

Whitespace == {" "}

\* String.prototype.trim
RECURSIVE TrimLeft(_)
TrimLeft(s) ==
  IF Len(s) > 0 /\ Char(s, 1) \in Whitespace THEN TrimLeft(Tail(s)) ELSE s

RECURSIVE TrimRight(_)
TrimRight(s) ==
  IF Len(s) > 0 /\ Char(s, Len(s)) \in Whitespace
  THEN TrimRight(SubSeq(s, 1, Len(s) - 1)) ELSE s

Trim(s) == TrimRight(TrimLeft(s))

LowerChar(c) ==
  CASE c = "A" -> "a" [] c = "B" -> "b" [] c = "C" -> "c" [] c = "D" -> "d"
    [] c = "E" -> "e" [] c = "F" -> "f" [] c = "G" -> "g" [] c = "H" -> "h"
    [] c = "I" -> "i" [] c = "J" -> "j" [] c = "K" -> "k" [] c = "L" -> "l"
    [] c = "M" -> "m" [] c = "N" -> "n" [] c = "O" -> "o" [] c = "P" -> "p"
    [] c = "Q" -> "q" [] c = "R" -> "r" [] c = "S" -> "s" [] c = "T" -> "t"
    [] c = "U" -> "u" [] c = "V" -> "v" [] c = "W" -> "w" [] c = "X" -> "x"
    [] c = "Y" -> "y" [] c = "Z" -> "z" [] OTHER -> c

\* String.prototype.toLowerCase
RECURSIVE ToLowerCase(_)
ToLowerCase(s) ==
  IF Len(s) = 0 THEN s ELSE LowerChar(Head(s)) \o ToLowerCase(Tail(s))

\* email.toLowerCase().trim(): the key of the history ledger
NormalizeEmail(email) == Trim(ToLowerCase(email))

\* index of the first occurrence of character c in s, 0 if none
RECURSIVE IndexOf(_, _)
IndexOf(s, c) ==
  IF Len(s) = 0 THEN 0
  ELSE IF Head(s) = c THEN 1
  ELSE LET r == IndexOf(Tail(s), c) IN IF r = 0 THEN 0 ELSE r + 1

CountChar(s, c) == Cardinality({i \in 1..Len(s) : Char(s, i) = c})

\* /^[^\s@]+@[^\s@]+\.[^\s@]+$/ : one "@", no white space, and after the "@" a
\* dot with at least one character on each side
isValidEmail(email) ==
  LET Dotted(dom) == \E d \in 2..(Len(dom) - 1) : Char(dom, d) = "."
      Shaped(at) == at > 1 /\ Dotted(SubSeq(email, at + 1, Len(email)))
  IN /\ CountChar(email, "@") = 1
     /\ \A i \in 1..Len(email) : Char(email, i) \notin Whitespace
     /\ Shaped(IndexOf(email, "@"))

\* -------------------------------------------------------------- calendar

MsPerMinute == 60 * 1000
MsPerHour == 60 * 60 * 1000
MsPerDay == 24 * 60 * 60 * 1000

\* days from 1970-01-01 to the civil date (y, m, d), 1 <= m <= 12, any integer d
DaysFromCivil(y, m, d) ==
  LET Days(era, yoe, doy) ==
        era * 146097 + (yoe * 365 + yoe \div 4 - yoe \div 100 + doy) - 719468
      InEra(yy, era, mp) == Days(era, yy - era * 400, (153 * mp + 2) \div 5 + d - 1)
      Year(yy) == InEra(yy, yy \div 400, IF m > 2 THEN m - 3 ELSE m + 9)
  IN Year(IF m <= 2 THEN y - 1 ELSE y)

\* the civil date of a day number (days from 1970-01-01)
CivilFromDays(z0) ==
  LET Date(yoe, era, mp, doy, m) ==
        [year |-> yoe + era * 400 + (IF m <= 2 THEN 1 ELSE 0), month |-> m,
         day |-> doy - (153 * mp + 2) \div 5 + 1]
      Month(yoe, era, mp, doy) == Date(yoe, era, mp, doy, IF mp < 10 THEN mp + 3 ELSE mp - 9)
      DayOfYear(yoe, era, doy) == Month(yoe, era, (5 * doy + 2) \div 153, doy)
      YearOfEra(era, doe, yoe) ==
        DayOfYear(yoe, era, doe - (365 * yoe + yoe \div 4 - yoe \div 100))
      DayOfEra(era, doe) ==
        YearOfEra(era, doe,
                  (doe - doe \div 1460 + doe \div 36524 - doe \div 146096) \div 365)
      Era(z, era) == DayOfEra(era, z - era * 146097)
      Shifted(z) == Era(z, z \div 146097)
  IN Shifted(z0 + 719468)

\* The origin of the model's instants: 2025-03-14T00:00:00Z.
ModelEpochDay == DaysFromCivil(2025, 3, 14)

\* Instants more than this many days before the origin are all represented by
\* FarPast: the code only ever compares them with Date.now() (>= the origin here).
WindowDays == 10
FarPast == -(WindowDays + 1) * MsPerDay

\* Date.UTC(year, monthIndex, day, hours, minutes, 0, 0), month and day overflow
\* normalized as ECMAScript's MakeDay does
DateUTC(year, monthIndex, day, hours, minutes) ==
  LET Instant(dayNo) ==
        IF dayNo < -WindowDays THEN FarPast
        ELSE dayNo * MsPerDay + hours * MsPerHour + minutes * MsPerMinute
      Civil(y4) ==
        Instant(DaysFromCivil(y4 + monthIndex \div 12, (monthIndex % 12) + 1, 1)
                  + day - 1 - ModelEpochDay)
  IN Civil(IF year \in 0..99 THEN 1900 + year ELSE year)

\* The UTC calendar fields of an instant (getUTCFullYear, getUTCMonth() + 1,
\* getUTCDate, getUTCHours, getUTCMinutes)
UTCFields(ts) ==
  LET Fields(c, inDay) ==
        [year |-> c.year, month |-> c.month, day |-> c.day,
         hours |-> inDay \div MsPerHour, minutes |-> (inDay % MsPerHour) \div MsPerMinute]
  IN Fields(CivilFromDays(ts \div MsPerDay + ModelEpochDay), ts % MsPerDay)

\* String(n).padStart(2, "0")
Pad2(n) == IF n < 10 THEN "0" \o ToString(n) ELSE ToString(n)

\* ------------------------------------------------------- number parsing

RECURSIVE DigitPrefixLen(_)
DigitPrefixLen(s) ==
  IF Len(s) > 0 /\ Head(s) \in Digits THEN 1 + DigitPrefixLen(Tail(s)) ELSE 0

RECURSIVE Pow10(_)
Pow10(k) == IF k = 0 THEN 1 ELSE 10 * Pow10(k - 1)

NaN == [nan |-> TRUE, neg |-> FALSE, int |-> 0, frac |-> ""]

\* parseFloat(s): the value of the longest prefix of the form [+-]digits[.digits]
\* or [+-].digits, NaN when there is none. A number is kept exactly, as its sign,
\* its integer part and the digits of its fraction. (Exponents and "Infinity" are
\* not modelled: no input of the model holds them.)
ParseFloat(s0) ==
  LET Value(signed, neg, u, n, f) ==
        IF n = 0 /\ f = 0 THEN NaN
        ELSE [nan |-> FALSE, neg |-> neg, int |-> ParseInt(SubSeq(u, 1, n)),
              frac |-> SubSeq(u, n + 2, n + 1 + f)]
      Fraction(rest) ==
        IF Len(rest) > 0 /\ Head(rest) = "." THEN DigitPrefixLen(Tail(rest)) ELSE 0
      Unsigned(signed, neg, u, n) ==
        Value(signed, neg, u, n, Fraction(SubSeq(u, n + 1, Len(u))))
      Signed(s, signed) ==
        Unsigned(signed, signed /\ Head(s) = "-",
                 IF signed THEN Tail(s) ELSE s,
                 DigitPrefixLen(IF signed THEN Tail(s) ELSE s))
      Trimmed(s) == Signed(s, Len(s) > 0 /\ Head(s) \in {"-", "+"})
  IN Trimmed(TrimLeft(s0))

FracIsZero(x) == \A i \in 1..Len(x.frac) : Char(x.frac, i) = "0"

\* num > 1000 && num < 100000
InSerialDateRange(x) ==
  /\ ~x.nan /\ ~x.neg
  /\ (x.int > 1000 \/ (x.int = 1000 /\ ~FracIsZero(x)))
  /\ x.int < 100000

\* num >= 0 && num < 1
InSerialTimeRange(x) ==
  /\ ~x.nan
  /\ x.int = 0
  /\ (~x.neg \/ FracIsZero(x))

\* Math.round(serial * 24 * 60) for the fraction 0.frac (round half up)
RoundMinutes(frac) ==
  LET Rounded(den) == (2 * ParseInt(frac) * 24 * 60 + den) \div (2 * den)
  IN Rounded(Pow10(Len(frac)))

\* /^\d+(\.\d+)?$/
IsPlainDecimal(s) ==
  LET Tailed(rest) ==
        \/ Len(rest) = 0
        \/ /\ Len(rest) >= 2 /\ Head(rest) = "."
           /\ AllDigits(Tail(rest))
      Prefixed(n) == n > 0 /\ Tailed(SubSeq(s, n + 1, Len(s)))
  IN Prefixed(DigitPrefixLen(s))

\* /^0?\.\d+$/
IsFractionOnly(s) ==
  LET Dotted(t) == Len(t) >= 2 /\ Head(t) = "." /\ AllDigits(Tail(t))
  IN Dotted(IF Len(s) > 0 /\ Head(s) = "0" THEN Tail(s) ELSE s)

\* ---------------------------------------------------------- date patterns

DateSeparators == {"-", "/"}

\* digits, separator, digits, separator, digits and nothing else
ThreeFields(s) ==
  LET Third(a, r1, b, r2, c) ==
        [ok |-> /\ a > 0 /\ Len(s) > a /\ Char(s, a + 1) \in DateSeparators
                /\ b > 0 /\ Len(r1) > b /\ Char(r1, b + 1) \in DateSeparators
                /\ c > 0 /\ c = Len(r2),
         f1 |-> SubSeq(s, 1, a), f2 |-> SubSeq(r1, 1, b), f3 |-> r2]
      Second(a, r1, b, r2) == Third(a, r1, b, r2, DigitPrefixLen(r2))
      First(a, r1, b) == Second(a, r1, b, SubSeq(r1, b + 2, Len(r1)))
      Rest(a, r1) == First(a, r1, DigitPrefixLen(r1))
      Start(a) == Rest(a, SubSeq(s, a + 2, Len(s)))
  IN Start(DigitPrefixLen(s))

\* /^(\d{4})[-\/](\d{1,2})[-\/](\d{1,2})$/
isoMatch(s) ==
  LET Shape(p) == p.ok /\ Len(p.f1) = 4 /\ Len(p.f2) \in 1..2 /\ Len(p.f3) \in 1..2
  IN Shape(ThreeFields(s))

\* /^(\d{1,2})[-\/](\d{1,2})[-\/](\d{4})$/
usMatch(s) ==
  LET Shape(p) == p.ok /\ Len(p.f1) \in 1..2 /\ Len(p.f2) \in 1..2 /\ Len(p.f3) = 4
  IN Shape(ThreeFields(s))

\* null (no date), and a parsed date
NoDate == [some |-> FALSE, year |-> 0, month |-> 0, day |-> 0]
SomeDate(y, m, d) == [some |-> TRUE, year |-> y, month |-> m, day |-> d]

\* new Date(str) of the host engine for a string neither pattern matches: the
\* calendar fields it yields for the strings the engine accepts, NoDate for
\* "Invalid Date". (Host time zone UTC.)
JsDateParse(s) ==
  CASE s = "March 15, 2025" -> SomeDate(2025, 3, 15)
    [] s = "Mar 16 2025" -> SomeDate(2025, 3, 16)
    [] OTHER -> NoDate

\* ---------------------------------------------------------- time patterns

\* /^(\d{1,2}):(\d{2})(?::\d{2})?$/
time24Match(s) ==
  LET Minutes(r) ==
        /\ Len(r) >= 2 /\ AllDigits(SubSeq(r, 1, 2))
        /\ \/ Len(r) = 2
           \/ Len(r) = 5 /\ Char(r, 3) = ":" /\ AllDigits(SubSeq(r, 4, 5))
      Hour(a) ==
        /\ a \in 1..2 /\ Len(s) > a /\ Char(s, a + 1) = ":"
        /\ Minutes(SubSeq(s, a + 2, Len(s)))
  IN Hour(DigitPrefixLen(s))

\* /^(\d{1,2}):(\d{2})\s*(AM|PM|am|pm)$/i
time12Match(s) ==
  LET Minutes(r) ==
        /\ Len(r) >= 4 /\ AllDigits(SubSeq(r, 1, 2))
        /\ ToLowerCase(TrimLeft(SubSeq(r, 3, Len(r)))) \in {"am", "pm"}
      Hour(a) ==
        /\ a \in 1..2 /\ Len(s) > a /\ Char(s, a + 1) = ":"
        /\ Minutes(SubSeq(s, a + 2, Len(s)))
  IN Hour(DigitPrefixLen(s))

\* the captures of either time pattern
TimeHours(s) == ParseInt(SubSeq(s, 1, DigitPrefixLen(s)))
TimeMinutes(s) ==
  LET After(a) == ParseInt(SubSeq(s, a + 2, a + 3)) IN After(DigitPrefixLen(s))
TimePeriod(s) == ToLowerCase(SubSeq(s, Len(s) - 1, Len(s)))

\* hours of an H:MM AM|PM match
Hours12(s) ==
  LET Converted(period, hours) ==
        IF period = "pm" /\ hours # 12 THEN hours + 12
        ELSE IF period = "am" /\ hours = 12 THEN 0
        ELSE hours
  IN Converted(TimePeriod(s), TimeHours(s))

\* ------------------------------------------- temporal normalizer (PST)

PACIFIC_OFFSET_HOURS == -8
BEIJING_OFFSET_HOURS == 8

\* 1899-12-30, day 0 of the spreadsheet serial dates
ExcelEpochDay == DaysFromCivil(1899, 12, 30)

excelSerialToDate(serial) ==
  LET Date(c) == SomeDate(c.year, c.month, c.day)
  IN Date(CivilFromDays(ExcelEpochDay + serial))

excelSerialToTime(frac) ==
  LET Time(totalMinutes) ==
        [hours |-> (totalMinutes \div 60) % 24, minutes |-> totalMinutes % 60]
  IN Time(RoundMinutes(frac))

parseDate(dateValue) ==
  LET Fields(p, order) ==
        IF order = "iso" THEN SomeDate(ParseInt(p.f1), ParseInt(p.f2), ParseInt(p.f3))
        ELSE SomeDate(ParseInt(p.f3), ParseInt(p.f1), ParseInt(p.f2))
      Serial(num) == excelSerialToDate(num.int)
      Parsed(str) ==
        IF IsPlainDecimal(str) /\ InSerialDateRange(ParseFloat(str)) THEN Serial(ParseFloat(str))
        ELSE IF str = "" THEN NoDate
        ELSE IF isoMatch(str) THEN Fields(ThreeFields(str), "iso")
        ELSE IF usMatch(str) THEN Fields(ThreeFields(str), "us")
        ELSE JsDateParse(str)
  IN Parsed(Trim(dateValue))

Midnight == [hours |-> 0, minutes |-> 0]

parseTime(timeValue) ==
  LET Serial(num) == excelSerialToTime(num.frac)
      Parsed(str) ==
        IF IsFractionOnly(str) /\ InSerialTimeRange(ParseFloat(str)) THEN Serial(ParseFloat(str))
        ELSE IF str = "" THEN Midnight
        ELSE IF time24Match(str) THEN [hours |-> TimeHours(str), minutes |-> TimeMinutes(str)]
        ELSE IF time12Match(str) THEN [hours |-> Hours12(str), minutes |-> TimeMinutes(str)]
        ELSE Midnight
  IN Parsed(Trim(timeValue))

pacificTimeToUtc(year, month, day, hours, minutes) ==
  DateUTC(year, month - 1, day, hours - PACIFIC_OFFSET_HOURS, minutes)

\* "YYYY-MM-DD HH:MM" of the UTC fields of the shifted instant
DisplayString(shifted) ==
  LET Text(f) ==
        ToString(f.year) \o "-" \o Pad2(f.month) \o "-" \o Pad2(f.day)
          \o " " \o Pad2(f.hours) \o ":" \o Pad2(f.minutes)
  IN Text(UTCFields(shifted))

utcToBeijingTimeStringUnshifted(utcTimestamp) ==
  DisplayString(utcTimestamp)

utcToBeijingTimeString(utcTimestamp) ==
  DisplayString(utcTimestamp + BEIJING_OFFSET_HOURS * 60 * 60 * 1000)

\* Math.round(diffHours * 100) / 100, kept as hundredths of an hour
RoundedDelay(diffMs) == (diffMs + 18000) \div 36000

Immediate(now, display) ==
  [delayHours |-> 0, scheduledTimestamp |-> now, beijingTimeStr |-> display]

\* calculateSchedule, were an instant in the past kept as it is
calculateScheduleKeepsPast(sendDate, sendTime, now) ==
  LET Scheduled(targetUtc) ==
        [delayHours |-> IF targetUtc - now <= 0 THEN 0 ELSE RoundedDelay(targetUtc - now),
         scheduledTimestamp |-> targetUtc,
         beijingTimeStr |-> utcToBeijingTimeString(targetUtc)]
      Target(date, time) ==
        IF ~date.some THEN Immediate(now, utcToBeijingTimeString(now))
        ELSE Scheduled(pacificTimeToUtc(date.year, date.month, date.day,
                                        time.hours, time.minutes))
  IN Target(parseDate(sendDate), parseTime(sendTime))

\* calculateSchedule with Date.now() = now (fixed PST offset)
calculateSchedule(sendDate, sendTime, now) ==
  LET Scheduled(targetUtc) ==
        IF targetUtc - now <= 0 THEN Immediate(now, utcToBeijingTimeString(now))
        ELSE [delayHours |-> RoundedDelay(targetUtc - now),
              scheduledTimestamp |-> targetUtc,
              beijingTimeStr |-> utcToBeijingTimeString(targetUtc)]
      Target(date, time) ==
        IF ~date.some THEN Immediate(now, utcToBeijingTimeString(now))
        ELSE Scheduled(pacificTimeToUtc(date.year, date.month, date.day,
                                        time.hours, time.minutes))
  IN Target(parseDate(sendDate), parseTime(sendTime))

\* ------------------------------------------- temporal normalizer (DST guess)

isPacificDST(year, month, day) ==
  \/ month > 3 /\ month < 11
  \/ month = 3 /\ day >= 15
  \/ month = 11 /\ day < 7

formatToBeijingTime(timestamp) == DisplayString(timestamp + 8 * 60 * 60 * 1000)

\* excelSerialToTime of this variant: hours are not wrapped
excelSerialToTimeRaw(frac) ==
  LET Time(totalMinutes) == [hours |-> totalMinutes \div 60, minutes |-> totalMinutes % 60]
  IN Time(RoundMinutes(frac))

\* the date part: a number in the serial range wins over every pattern
ExcelDate(dateStr) ==
  LET Fields(p, order) ==
        IF order = "iso" THEN SomeDate(ParseInt(p.f1), ParseInt(p.f2), ParseInt(p.f3))
        ELSE SomeDate(ParseInt(p.f3), ParseInt(p.f1), ParseInt(p.f2))
      Parsed(numericDate) ==
        IF InSerialDateRange(numericDate) THEN excelSerialToDate(numericDate.int)
        ELSE IF isoMatch(dateStr) THEN Fields(ThreeFields(dateStr), "iso")
        ELSE IF usMatch(dateStr) THEN Fields(ThreeFields(dateStr), "us")
        ELSE JsDateParse(dateStr)
  IN Parsed(ParseFloat(dateStr))

\* the time of day: from the serial's fraction, then overwritten by the time string
ExcelTime(dateStr, timeStr) ==
  LET FromDate(numericDate) ==
        IF InSerialDateRange(numericDate) /\ ~FracIsZero(numericDate)
        THEN excelSerialToTimeRaw(numericDate.frac) ELSE Midnight
      Parsed(numericTime, fromDate) ==
        IF InSerialTimeRange(numericTime) THEN excelSerialToTimeRaw(numericTime.frac)
        ELSE IF timeStr = "" \/ timeStr = "00:00" THEN fromDate
        ELSE IF time24Match(timeStr)
        THEN [hours |-> TimeHours(timeStr), minutes |-> TimeMinutes(timeStr)]
        ELSE IF time12Match(timeStr)
        THEN [hours |-> Hours12(timeStr), minutes |-> TimeMinutes(timeStr)]
        ELSE fromDate
  IN Parsed(ParseFloat(timeStr), FromDate(ParseFloat(dateStr)))

\* Date.UTC(year, month - 1, day, hours + pacificOffset, minutes, 0, 0) with
\* pacificOffset = isDST ? 7 : 8
pacificTimeToUtcDST(year, month, day, hours, minutes) ==
  DateUTC(year, month - 1, day,
          hours + (IF isPacificDST(year, month, day) THEN 7 ELSE 8), minutes)

\* calculateSchedule of lib/excel.ts with Date.now() = now
calculateScheduleDST(sendDate, sendTime, now) ==
  LET Scheduled(targetUtc) ==
        IF targetUtc - now <= 0 THEN Immediate(now, formatToBeijingTime(now))
        ELSE [delayHours |-> RoundedDelay(targetUtc - now),
              scheduledTimestamp |-> targetUtc,
              beijingTimeStr |-> formatToBeijingTime(targetUtc)]
      Target(date, time) ==
        IF sendDate = "" THEN Immediate(now, formatToBeijingTime(now))
        ELSE IF ~date.some THEN Immediate(now, formatToBeijingTime(now))
        ELSE Scheduled(pacificTimeToUtcDST(date.year, date.month, date.day,
                                           time.hours, time.minutes))
      Strings(dateStr, timeStr) == Target(ExcelDate(dateStr), ExcelTime(dateStr, timeStr))
  IN Strings(Trim(sendDate), IF sendTime # "" THEN Trim(sendTime) ELSE "00:00")

\* --------------------------------------------------------- row parser

\* getColumnValue: the trimmed value under the first alias that the row holds
\* non-empty, null ("") when there is none. A row maps column labels to strings.
RECURSIVE getColumnValue(_, _)
getColumnValue(row, possibleNames) ==
  IF possibleNames = <<>> THEN ""
  ELSE IF Head(possibleNames) \in DOMAIN row /\ row[Head(possibleNames)] # ""
       THEN Trim(row[Head(possibleNames)])
       ELSE getColumnValue(row, Tail(possibleNames))

\* Labels and markers written in Chinese in the source appear here in pinyin
\* with a "zh:" prefix, and the two check marks by their code points.
SentMarkers ==
  {"zh:yifasong", "sent", "yes", "y", "true", "1", "u2713", "u2714", "done", "completed", "zh:fasongchenggong"}

isSentMarker(value) == Trim(ToLowerCase(value)) \in SentMarkers

SentStatusNames == <<"Sent Status", "zh:yifasong", "Status", "zh:zhuangtai", "zh:fasongzhuangtai">>
EmailNames == <<"Email", "email", "zh:youxiang", "zh:shoujianren", "to", "zh:youjiandizhi">>
SubjectNames == <<"Subject Line", "Subject", "zh:zhuti", "zh:biaoti">>
SendDateNames == <<"Send Date", "zh:fasongriqi", "zh:riqi", "Date">>
SendTimeNames == <<"Send Time", "zh:fasongshijian", "zh:shijian", "Time">>
ContentNames == <<"Email Body", "content", "zh:neirong", "zh:zhengwen", "Content">>

\* ParseRow with the instant taken back from the rounded delay
ParseRowFromDelay(row, rowNum, now) ==
  LET Rejected(msg) == [kind |-> "error", error |-> "Row " \o ToString(rowNum) \o ": " \o msg]
      Task(email, subject, content, sendDate, sendTime, schedule) ==
        [kind |-> "task",
         task |-> [to |-> email, subject |-> subject, content |-> content,
                   sendDate |-> sendDate, sendTime |-> sendTime,
                   sendDateTimeBeijing |-> schedule.beijingTimeStr,
                   delayHours |-> schedule.delayHours,
                   scheduledTimestamp |-> now + schedule.delayHours * 36000]]
      Fields(sentStatus, email, subject, content, sendDate, sendTime) ==
        IF sentStatus # "" /\ isSentMarker(sentStatus) THEN [kind |-> "skipped"]
        ELSE IF email = "" THEN Rejected("Missing email")
        ELSE IF ~isValidEmail(email) THEN Rejected("Invalid email: " \o email)
        ELSE IF subject = "" THEN Rejected("Missing subject")
        ELSE IF content = "" THEN Rejected("Missing content")
        ELSE Task(email, subject, content, sendDate, sendTime,
                  calculateSchedule(sendDate, sendTime, now))
  IN Fields(getColumnValue(row, SentStatusNames), getColumnValue(row, EmailNames),
            getColumnValue(row, SubjectNames), getColumnValue(row, ContentNames),
            getColumnValue(row, SendDateNames), getColumnValue(row, SendTimeNames))

\* what one row yields: "skipped" (sent marker), "error" (rejected, with its
\* message) or "task"
ParseRow(row, rowNum, now) ==
  LET Rejected(msg) == [kind |-> "error", error |-> "Row " \o ToString(rowNum) \o ": " \o msg]
      Task(email, subject, content, sendDate, sendTime, schedule) ==
        [kind |-> "task",
         task |-> [to |-> email, subject |-> subject, content |-> content,
                   sendDate |-> sendDate, sendTime |-> sendTime,
                   sendDateTimeBeijing |-> schedule.beijingTimeStr,
                   delayHours |-> schedule.delayHours,
                   scheduledTimestamp |-> schedule.scheduledTimestamp]]
      Fields(sentStatus, email, subject, content, sendDate, sendTime) ==
        IF sentStatus # "" /\ isSentMarker(sentStatus) THEN [kind |-> "skipped"]
        ELSE IF email = "" THEN Rejected("Missing email")
        ELSE IF ~isValidEmail(email) THEN Rejected("Invalid email: " \o email)
        ELSE IF subject = "" THEN Rejected("Missing subject")
        ELSE IF content = "" THEN Rejected("Missing content")
        ELSE Task(email, subject, content, sendDate, sendTime,
                  calculateSchedule(sendDate, sendTime, now))
  IN Fields(getColumnValue(row, SentStatusNames), getColumnValue(row, EmailNames),
            getColumnValue(row, SubjectNames), getColumnValue(row, ContentNames),
            getColumnValue(row, SendDateNames), getColumnValue(row, SendTimeNames))

RowOutcomes(data, now) == [i \in 1..Len(data) |-> ParseRow(data[i], i + 1, now)]

RECURSIVE JoinErrors(_)
JoinErrors(errors) ==
  IF errors = <<>> THEN ""
  ELSE IF Len(errors) = 1 THEN errors[1]
  ELSE errors[1] \o "; " \o JoinErrors(Tail(errors))

\* parseExcelBuffer, were one rejected row enough to fail the sheet
parseExcelBufferAllOrNothing(data, now) ==
  LET Result(taskRows, errorRows, skippedCount) ==
        IF Len(data) = 0
        THEN [success |-> FALSE, tasks |-> <<>>, error |-> "Excel file is empty",
              skippedCount |-> 0]
        ELSE IF Len(taskRows) = 0 \/ Len(errorRows) > 0
        THEN [success |-> FALSE, tasks |-> <<>>,
              error |-> "No valid tasks. "
                          \o JoinErrors([i \in 1..Len(errorRows) |-> errorRows[i].error]),
              skippedCount |-> skippedCount]
        ELSE [success |-> TRUE, tasks |-> [i \in 1..Len(taskRows) |-> taskRows[i].task],
              error |-> "", skippedCount |-> skippedCount]
      Sorted(out) ==
        Result(SelectSeq(out, LAMBDA o : o.kind = "task"),
               SelectSeq(out, LAMBDA o : o.kind = "error"),
               Len(SelectSeq(out, LAMBDA o : o.kind = "skipped")))
  IN Sorted(RowOutcomes(data, now))

\* parseExcelBuffer over the rows of the first sheet, with Date.now() = now
parseExcelBuffer(data, now) ==
  LET Result(taskRows, errorRows, skippedCount) ==
        IF Len(data) = 0
        THEN [success |-> FALSE, tasks |-> <<>>, error |-> "Excel file is empty",
              skippedCount |-> 0]
        ELSE IF Len(taskRows) = 0
        THEN [success |-> FALSE, tasks |-> <<>>,
              error |-> "No valid tasks. "
                          \o JoinErrors([i \in 1..Len(errorRows) |-> errorRows[i].error]),
              skippedCount |-> skippedCount]
        ELSE [success |-> TRUE, tasks |-> [i \in 1..Len(taskRows) |-> taskRows[i].task],
              error |-> "", skippedCount |-> skippedCount]
      Sorted(out) ==
        Result(SelectSeq(out, LAMBDA o : o.kind = "task"),
               SelectSeq(out, LAMBDA o : o.kind = "error"),
               Len(SelectSeq(out, LAMBDA o : o.kind = "skipped")))
  IN Sorted(RowOutcomes(data, now))

\* --------------------------------------------------------- history ledger

\* a row of email_history; null is NoRow
NoRow == [found |-> FALSE, email |-> "", sent_count |-> 0, subjects |-> <<>>]
HistoryRow(email, count, subjects) ==
  [found |-> TRUE, email |-> email, sent_count |-> count, subjects |-> subjects]

\* select * from email_history where email = k, .single()
SelectHistory(h, k) == IF k \in DOMAIN h THEN h[k] ELSE NoRow

\* NewSubjects, were five earlier subjects kept
NewSubjectsKeepsFive(subject, subjects) ==
  <<subject>> \o SubSeq(subjects, 1, IF Len(subjects) < 5 THEN Len(subjects) ELSE 5)

\* [subject, ...(existing.subjects || []).slice(0, 4)]
NewSubjects(subject, subjects) ==
  <<subject>> \o SubSeq(subjects, 1, IF Len(subjects) < 4 THEN Len(subjects) ELSE 4)

\* The write of recordSentEmail after it read `existing`: an update of the row
\* with the values computed from `existing`, or an insert, which the unique
\* email column refuses when the row exists by now.
WriteHistory(h, k, subject, existing) ==
  IF existing.found
  THEN IF k \in DOMAIN h
       THEN [h EXCEPT ![k] = HistoryRow(k, existing.sent_count + 1,
                                        NewSubjects(subject, existing.subjects))]
       ELSE h
  ELSE IF k \in DOMAIN h THEN h
       ELSE (k :> HistoryRow(k, 1, <<subject>>)) @@ h

NormalizedSet(emails) == {NormalizeEmail(emails[i]) : i \in 1..Len(emails)}

\* checkDuplicateEmails(emails, maxSendCount) over the table: the rows with
\* email in the normalized list and sent_count >= maxSendCount
checkDuplicateEmails(h, emails, maxSendCount) ==
  LET Over(normalizedEmails) ==
        {h[k] : k \in {e \in normalizedEmails \cap DOMAIN h : h[e].sent_count >= maxSendCount}}
  IN Over(NormalizedSet(emails))

\* getEmailSendCounts(emails): email -> sent_count of the rows found
getEmailSendCounts(h, emails) ==
  LET Counts(normalizedEmails) == [k \in normalizedEmails \cap DOMAIN h |-> h[k].sent_count]
  IN Counts(NormalizedSet(emails))

\* checkDuplicateEmails of the file store: one entry per queried address that
\* has a record, in query order, whatever its count
checkDuplicateEmailsFile(h, emails) ==
  LET Records(hits) == [i \in 1..Len(hits) |-> h[hits[i]]]
  IN Records(SelectSeq([i \in 1..Len(emails) |-> NormalizeEmail(emails[i])],
                       LAMBDA k : k \in DOMAIN h))

\* recordSentEmail of the file store: load, change, save in one synchronous call
recordSentEmailFile(h, email, subject) ==
  LET Saved(k) ==
        IF k \in DOMAIN h
        THEN [h EXCEPT ![k] = HistoryRow(k, h[k].sent_count + 1,
                                         NewSubjects(subject, h[k].subjects))]
        ELSE (k :> HistoryRow(k, 1, <<subject>>)) @@ h
  IN Saved(NormalizeEmail(email))

\* recordSentEmails of the file store
RECURSIVE recordSentEmailsFile(_, _)
recordSentEmailsFile(h, emails) ==
  IF emails = <<>> THEN h
  ELSE recordSentEmailsFile(recordSentEmailFile(h, emails[1].email, emails[1].subject),
                            Tail(emails))

\* inFileDuplicates, were three occurrences enough
inFileDuplicatesFromThree(emails) ==
  LET Flagged(emailCounts) ==
        [k \in {e \in DOMAIN emailCounts : emailCounts[e] >= 3} |-> emailCounts[k]]
      Counted(normalized) ==
        Flagged([k \in {normalized[i] : i \in 1..Len(normalized)} |->
                   Cardinality({i \in 1..Len(normalized) : normalized[i] = k})])
  IN Counted([i \in 1..Len(emails) |-> NormalizeEmail(emails[i])])

\* the in-file duplicates of upload: normalized address -> occurrences, for the
\* addresses that occur more than 3 times
inFileDuplicates(emails) ==
  LET Flagged(emailCounts) ==
        [k \in {e \in DOMAIN emailCounts : emailCounts[e] > 3} |-> emailCounts[k]]
      Counted(normalized) ==
        Flagged([k \in {normalized[i] : i \in 1..Len(normalized)} |->
                   Cardinality({i \in 1..Len(normalized) : normalized[i] = k})])
  IN Counted([i \in 1..Len(emails) |-> NormalizeEmail(emails[i])])

\* ================================================================ state

VARIABLES
  now,            \* Date.now(), in ms since the model epoch
  envCredentials, \* GMAIL_USER and GMAIL_APP_PASSWORD are set in the environment
  job,            \* the Job the client holds (currentJob), NoJob before an upload
  upload,         \* the last response of POST /api/upload
  inv,            \* the dispatch invocation in flight (/api/send or /api/send-stream)
  resp,           \* the last response of a dispatch invocation
  recorders,      \* recordSentEmails calls started and not awaited, still running
  history,        \* table email_history: normalized email -> row
  scheduled,      \* table scheduled_emails: id -> row
  polls,          \* the invocations of processDueEmails
  delivered,      \* per normalized address, the messages the transport accepted
  probe           \* arguments and results of the last direct call of a function

vars == <<now, envCredentials, job, upload, inv, resp, recorders, history,
          scheduled, polls, delivered, probe>>

\* --------------------------------------------------------------- bounds

MaxRows == 2      \* rows of an uploaded sheet
MaxUploads == 1   \* uploads in one behaviour
MaxPolls == 2     \* poll invocations that may overlap
MaxAttempts == 2  \* times one row of scheduled_emails is handed to the transport

\* the instant the dated rows below ask for: 2025-03-14 00:01 Pacific
DueInstant == DateUTC(2025, 2, 14, 8, 1)
\* the clock readings: ten minutes and ten seconds before DueInstant, and one after
Instants == {DueInstant - 10 * MsPerMinute, DueInstant - 10000, DueInstant + 12000}

Row(email, subject, sendDate, sendTime) ==
  ("Email" :> email) @@ ("Subject" :> subject) @@ ("Content" :> "hello") @@
  ("Send Date" :> sendDate) @@ ("Send Time" :> sendTime)

\* the rows an uploaded sheet is made of: an undated one, a dated one for the
\* same mailbox written in another case, and one in a domain that the
\* deliverability check refuses
SheetRows ==
  { Row("ann@x.io", "s1", "", ""),
    Row("Ann@x.io", "s2", "3/14/2025", "00:01"),
    Row("bob@test.com", "s1", "", "") }

RECURSIVE SeqsUpTo(_, _)
SeqsUpTo(S, n) ==
  IF n = 0 THEN {<<>>}
  ELSE LET Longer(shorter) ==
             shorter \cup {Append(q, x) : q \in {t \in shorter : Len(t) = n - 1}, x \in S}
       IN Longer(SeqsUpTo(S, n - 1))

Sheets == SeqsUpTo(SheetRows, MaxRows) \ {<<>>}

Polls == 1..MaxPolls

\* ---------------------------------------------------------------- values

NoResult == [total |-> 0, success |-> 0, failed |-> 0]

NoJob == [id |-> 0, tasks |-> <<>>, status |-> "none", result |-> NoResult,
          emailConfig |-> FALSE]

MsPerHundredthHour == MsPerHour \div 100

\* createJobData(tasks, emailConfig) with Date.now() = t; ids count the uploads
createJobData(tasks, emailConfig, t, id) ==
  [id |-> id,
   tasks |-> [i \in 1..Len(tasks) |->
                [to |-> tasks[i].to, subject |-> tasks[i].subject,
                 delayHours |-> tasks[i].delayHours,
                 scheduledFor |-> t + tasks[i].delayHours * MsPerHundredthHour,
                 status |-> "pending", error |-> ""]],
   status |-> "pending", result |-> NoResult, emailConfig |-> emailConfig]

isJobCompleted(j) == \A i \in 1..Len(j.tasks) : j.tasks[i].status # "pending"

CountStatus(tasks, st) == Cardinality({i \in 1..Len(tasks) : tasks[i].status = st})

calculateJobResult(j) ==
  [total |-> Len(j.tasks), success |-> CountStatus(j.tasks, "sent"),
   failed |-> CountStatus(j.tasks, "failed")]

NoUpload ==
  [success |-> FALSE, error |-> "", tasks |-> <<>>, taskCount |-> 0,
   immediateCount |-> 0, scheduledCount |-> 0, scheduledSaved |-> FALSE,
   scheduledSavedCount |-> 0, duplicates |-> {}, emailSendCounts |-> <<>>,
   inFileDuplicates |-> <<>>]

\* the rows saveScheduledEmails inserts for the tasks it is given
NewScheduledRows(tasks, jobId, firstId) ==
  [i \in 1..Len(tasks) |->
     [id |-> firstId + i - 1, job_id |-> jobId, to_email |-> tasks[i].to,
      subject |-> tasks[i].subject, scheduled_for |-> tasks[i].scheduledTimestamp,
      status |-> "pending", error_message |-> "", attempts |-> 0]]

\* ================================================================ upload

\* POST /api/upload of a sheet, with or without the sender's credentials in
\* the form, while the store answers (storeOk) or fails. The client keeps the
\* returned job. A sheet that yields no task is answered with an error and
\* nothing else happens.
Upload(data, emailConfig, storeOk) ==
  /\ inv.kind = "idle"
  /\ LET Respond(parseResult, newJob, emails, scheduledCount, scheduledTasks) ==
           /\ job' = newJob
           /\ scheduled' =
                IF storeOk /\ scheduledTasks # <<>>
                THEN scheduled \o NewScheduledRows(scheduledTasks, newJob.id, Len(scheduled) + 1)
                ELSE scheduled
           /\ upload' =
                [success |-> TRUE, error |-> "", tasks |-> parseResult.tasks,
                 taskCount |-> Len(newJob.tasks),
                 immediateCount |-> Len(newJob.tasks) - scheduledCount,
                 scheduledCount |-> scheduledCount,
                 scheduledSaved |-> storeOk /\ scheduledTasks # <<>>,
                 scheduledSavedCount |->
                   IF storeOk /\ scheduledTasks # <<>> THEN Len(scheduledTasks) ELSE 0,
                 duplicates |-> IF storeOk THEN checkDuplicateEmails(history, emails, 3) ELSE {},
                 emailSendCounts |-> IF storeOk THEN getEmailSendCounts(history, emails) ELSE <<>>,
                 inFileDuplicates |-> inFileDuplicates(emails)]
         Counted(parseResult, newJob, scheduledCount) ==
           Respond(parseResult, newJob,
                   [i \in 1..Len(parseResult.tasks) |-> parseResult.tasks[i].to],
                   scheduledCount,
                   IF emailConfig /\ scheduledCount > 0
                   THEN SelectSeq(parseResult.tasks, LAMBDA t : t.scheduledTimestamp > now)
                   ELSE <<>>)
         Created(parseResult, newJob) ==
           Counted(parseResult, newJob,
                   Cardinality({i \in 1..Len(newJob.tasks) : newJob.tasks[i].scheduledFor > now}))
         Parsed(parseResult) ==
           IF ~parseResult.success
           THEN /\ upload' = [NoUpload EXCEPT !.error = parseResult.error]
                /\ UNCHANGED <<job, scheduled>>
           ELSE Created(parseResult,
                        createJobData(parseResult.tasks, emailConfig, now, job.id + 1))
     IN Parsed(parseExcelBuffer(data, now))
  /\ UNCHANGED <<now, envCredentials, inv, resp, recorders, history, polls, delivered, probe>>

\* time passes
Tick ==
  /\ \E t \in Instants : t > now /\ now' = t
  /\ UNCHANGED <<envCredentials, job, upload, inv, resp, recorders, history,
                 scheduled, polls, delivered, probe>>

\* ============================================================== dispatch

NoSelection == [given |-> FALSE, set |-> {}]
Selection(S) == [given |-> TRUE, set |-> S]

IdleInv ==
  [kind |-> "idle", sendAll |-> FALSE, selected |-> NoSelection,
   tasksToSend |-> <<>>, i |-> 0, updatedJob |-> NoJob, results |-> <<>>,
   successCount |-> 0, failedCount |-> 0, skippedCount |-> 0, waits |-> 0]

NoResp == [kind |-> "none", total |-> 0, success |-> 0, failed |-> 0, skipped |-> 0]

Indices(tasks) == [i \in 1..Len(tasks) |-> i]

\* the indices of the tasks that are pending and, when a selection is given,
\* selected, in array order
PendingSelected(j, sel) ==
  SelectSeq(Indices(j.tasks),
            LAMBDA i : j.tasks[i].status = "pending" /\ (sel.given => j.tasks[i].to \in sel.set))

\* createTransporter finds a user and a password
HasCredentials(emailConfig) == emailConfig \/ envCredentials

\* the results sendEmail can return: without credentials createTransporter
\* throws and the catch turns it into a failure
SendEmailOutcomes(emailConfig) == IF HasCredentials(emailConfig) THEN BOOLEAN ELSE {FALSE}

SendEmailError(emailConfig) ==
  IF HasCredentials(emailConfig) THEN "transport error"
  ELSE "Missing email credentials (user or password)"

Addresses(j) == {j.tasks[i].to : i \in 1..Len(j.tasks)}

\* what the caller may pass as selectedEmails
Selections(j) == {NoSelection} \cup {Selection(S) : S \in SUBSET Addresses(j)}

Bump(f, k) == IF k \in DOMAIN f THEN [f EXCEPT ![k] = @ + 1] ELSE (k :> 1) @@ f

\* CloseJob, were the result taken from the tally of the invocation
CloseJobFromTally(j, failedCount) ==
  IF isJobCompleted(j)
  THEN [j EXCEPT !.status = IF failedCount > 0 THEN "failed" ELSE "completed",
                 !.result = [total |-> Len(j.tasks),
                             success |-> Len(j.tasks) - failedCount,
                             failed |-> failedCount]]
  ELSE j

\* updatedJob.status and updatedJob.result at the end of an invocation
CloseJob(j, failedCount) ==
  IF isJobCompleted(j)
  THEN [j EXCEPT !.status = IF failedCount > 0 THEN "failed" ELSE "completed",
                 !.result = calculateJobResult(j)]
  ELSE j

\* recordSentEmails(successfulEmails) is called and not awaited
Spawn(successfulEmails) ==
  IF successfulEmails # <<>>
  THEN Append(recorders, [todo |-> successfulEmails, phase |-> "read", existing |-> NoRow])
  ELSE recorders

\* ------------------------------------------------------- POST /api/send

\* The request arrives with the client's job. No pending selected task: 400.
\* No due task (sendAll unset): an empty result with updatedJob = job.
SendStart(sendAll, sel) ==
  /\ inv.kind = "idle"
  /\ job.id # 0
  /\ LET pendingTasks == PendingSelected(job, sel)
         tasksToSend == IF sendAll THEN pendingTasks
                        ELSE SelectSeq(pendingTasks, LAMBDA i : job.tasks[i].scheduledFor <= now)
     IN IF pendingTasks = <<>>
        THEN /\ resp' = [NoResp EXCEPT !.kind = "error"]
             /\ inv' = inv
        ELSE IF tasksToSend = <<>>
        THEN /\ resp' = [NoResp EXCEPT !.kind = "result"]
             /\ inv' = inv
        ELSE /\ inv' = [IdleInv EXCEPT !.kind = "send", !.sendAll = sendAll,
                                       !.selected = sel,
                                       !.tasksToSend = tasksToSend, !.updatedJob = job]
             /\ resp' = resp
  /\ UNCHANGED <<now, envCredentials, job, upload, recorders, history, scheduled,
                 polls, delivered, probe>>

\* one iteration of the loop: sendEmail, the task's new status, the 2 s wait
SendStep(success) ==
  /\ inv.kind = "send"
  /\ inv.i < Len(inv.tasksToSend)
  /\ success \in SendEmailOutcomes(job.emailConfig)
  /\ LET index == inv.tasksToSend[inv.i + 1]
         task == job.tasks[index]
     IN /\ inv' = [inv EXCEPT
               !.i = @ + 1,
               !.results = Append(@, [email |-> task.to, subject |-> task.subject,
                                      success |-> success, skipped |-> FALSE]),
               !.updatedJob.tasks[index].status = IF success THEN "sent" ELSE "failed",
               !.updatedJob.tasks[index].error =
                  IF success THEN @ ELSE SendEmailError(job.emailConfig),
               !.successCount = IF success THEN @ + 1 ELSE @,
               !.failedCount = IF success THEN @ ELSE @ + 1,
               !.waits = @ + 1]
        /\ delivered' = IF success THEN Bump(delivered, NormalizeEmail(task.to)) ELSE delivered
  /\ UNCHANGED <<now, envCredentials, job, upload, resp, recorders, history,
                 scheduled, polls, probe>>

\* the subject recorded for a result: that of the first task sent to the
\* same address in this invocation
FirstSubject(email) ==
  LET hits == SelectSeq(inv.tasksToSend, LAMBDA i : job.tasks[i].to = email)
  IN IF hits = <<>> THEN "" ELSE job.tasks[hits[1]].subject

\* SendFinish, were the records of the tasks it sent settled with them
SendFinishSettlesRecords ==
  /\ inv.kind = "send"
  /\ inv.i = Len(inv.tasksToSend)
  /\ LET good == SelectSeq(inv.results, LAMBDA r : r.success)
         successfulEmails ==
           [n \in 1..Len(good) |-> [email |-> good[n].email,
                                    subject |-> FirstSubject(good[n].email)]]
     IN recorders' = Spawn(successfulEmails)
  /\ job' = CloseJob(inv.updatedJob, inv.failedCount)
  /\ scheduled' =
       [id \in 1..Len(scheduled) |->
          IF /\ scheduled[id].job_id = job.id
             /\ scheduled[id].status = "pending"
             /\ \E i \in 1..Len(inv.updatedJob.tasks) :
                  /\ inv.updatedJob.tasks[i].status = "sent"
                  /\ inv.updatedJob.tasks[i].to = scheduled[id].to_email
                  /\ inv.updatedJob.tasks[i].subject = scheduled[id].subject
          THEN [scheduled[id] EXCEPT !.status = "sent"]
          ELSE scheduled[id]]
  /\ resp' = [kind |-> "result", total |-> Len(inv.tasksToSend),
              success |-> inv.successCount, failed |-> inv.failedCount, skipped |-> 0]
  /\ inv' = IdleInv
  /\ UNCHANGED <<now, envCredentials, upload, history, polls, delivered, probe>>

\* after the loop: the ledger call that is not awaited, the job's status, the
\* response, and the client keeping updatedJob
SendFinish ==
  /\ inv.kind = "send"
  /\ inv.i = Len(inv.tasksToSend)
  /\ LET good == SelectSeq(inv.results, LAMBDA r : r.success)
         successfulEmails ==
           [n \in 1..Len(good) |-> [email |-> good[n].email,
                                    subject |-> FirstSubject(good[n].email)]]
     IN recorders' = Spawn(successfulEmails)
  /\ job' = CloseJob(inv.updatedJob, inv.failedCount)
  /\ resp' = [kind |-> "result", total |-> Len(inv.tasksToSend),
              success |-> inv.successCount, failed |-> inv.failedCount, skipped |-> 0]
  /\ inv' = IdleInv
  /\ UNCHANGED <<now, envCredentials, upload, history, scheduled, polls, delivered, probe>>

\* ------------------------------------------------ POST /api/send-stream

InvalidDomains ==
  {"example.com", "test.com", "localhost", "invalid.com", "fake.com", "noemail.com"}

TempEmailDomains ==
  {"tempmail.com", "throwaway.email", "guerrillamail.com", "10minutemail.com",
   "mailinator.com", "yopmail.com", "trashmail.com"}

\* normalizedEmail.split("@")[1] of an address of valid format
DomainOf(email) == SubSeq(email, IndexOf(email, "@") + 1, Len(email))

\* What validateEmail can answer for an address: "" when it is valid, else
\* the reason. The MX lookup finds servers, or finds none, or fails in
\* another way, which counts as valid.
ValidationOutcomes(email) ==
  LET Checked(normalizedEmail, domain) ==
        IF ~isValidEmail(normalizedEmail) THEN {"invalid format"}
        ELSE IF domain \in InvalidDomains THEN {"invalid domain"}
        ELSE IF domain \in TempEmailDomains THEN {"temporary mailbox"}
        ELSE {"", "no MX record"}
  IN Checked(Trim(ToLowerCase(email)), DomainOf(Trim(ToLowerCase(email))))

\* No pending selected task: 400. There is no due-time test and no sendAll.
StreamStart(sel) ==
  /\ inv.kind = "idle"
  /\ job.id # 0
  /\ LET tasksToSend == PendingSelected(job, sel)
     IN IF tasksToSend = <<>>
        THEN /\ resp' = [NoResp EXCEPT !.kind = "error"]
             /\ inv' = inv
        ELSE /\ inv' = [IdleInv EXCEPT !.kind = "stream", !.selected = sel,
                                       !.tasksToSend = tasksToSend, !.updatedJob = job]
             /\ resp' = resp
  /\ UNCHANGED <<now, envCredentials, job, upload, recorders, history, scheduled,
                 polls, delivered, probe>>

\* StreamStep, were a rejected address followed by the wait as well
StreamStepPacesRejected(reason, success) ==
  /\ inv.kind = "stream"
  /\ inv.i < Len(inv.tasksToSend)
  /\ LET index == inv.tasksToSend[inv.i + 1]
         task == job.tasks[index]
     IN /\ reason \in ValidationOutcomes(task.to)
        /\ success \in SendEmailOutcomes(job.emailConfig)
        /\ reason # "" => ~success
        /\ inv' =
             IF reason # ""
             THEN [inv EXCEPT
                     !.i = @ + 1,
                     !.results = Append(@, [email |-> task.to, subject |-> task.subject,
                                            success |-> FALSE, skipped |-> TRUE]),
                     !.updatedJob.tasks[index].status = "failed",
                     !.updatedJob.tasks[index].error = reason,
                     !.skippedCount = @ + 1,
                     !.waits = IF inv.i < Len(inv.tasksToSend) - 1 THEN @ + 1 ELSE @]
             ELSE [inv EXCEPT
                     !.i = @ + 1,
                     !.results = Append(@, [email |-> task.to, subject |-> task.subject,
                                            success |-> success, skipped |-> FALSE]),
                     !.updatedJob.tasks[index].status = IF success THEN "sent" ELSE "failed",
                     !.updatedJob.tasks[index].error =
                        IF success THEN @ ELSE SendEmailError(job.emailConfig),
                     !.successCount = IF success THEN @ + 1 ELSE @,
                     !.failedCount = IF success THEN @ ELSE @ + 1,
                     !.waits = IF inv.i < Len(inv.tasksToSend) - 1 THEN @ + 1 ELSE @]
        /\ delivered' = IF success THEN Bump(delivered, NormalizeEmail(task.to)) ELSE delivered
  /\ UNCHANGED <<now, envCredentials, job, upload, resp, recorders, history,
                 scheduled, polls, probe>>

\* one iteration: validateEmail, and for a valid address sendEmail, the new
\* status and, unless it was the last task, the 2 s wait
StreamStep(reason, success) ==
  /\ inv.kind = "stream"
  /\ inv.i < Len(inv.tasksToSend)
  /\ LET index == inv.tasksToSend[inv.i + 1]
         task == job.tasks[index]
     IN /\ reason \in ValidationOutcomes(task.to)
        /\ success \in SendEmailOutcomes(job.emailConfig)
        /\ reason # "" => ~success
        /\ inv' =
             IF reason # ""
             THEN [inv EXCEPT
                     !.i = @ + 1,
                     !.results = Append(@, [email |-> task.to, subject |-> task.subject,
                                            success |-> FALSE, skipped |-> TRUE]),
                     !.updatedJob.tasks[index].status = "failed",
                     !.updatedJob.tasks[index].error = reason,
                     !.skippedCount = @ + 1]
             ELSE [inv EXCEPT
                     !.i = @ + 1,
                     !.results = Append(@, [email |-> task.to, subject |-> task.subject,
                                            success |-> success, skipped |-> FALSE]),
                     !.updatedJob.tasks[index].status = IF success THEN "sent" ELSE "failed",
                     !.updatedJob.tasks[index].error =
                        IF success THEN @ ELSE SendEmailError(job.emailConfig),
                     !.successCount = IF success THEN @ + 1 ELSE @,
                     !.failedCount = IF success THEN @ ELSE @ + 1,
                     !.waits = IF inv.i < Len(inv.tasksToSend) - 1 THEN @ + 1 ELSE @]
        /\ delivered' = IF success THEN Bump(delivered, NormalizeEmail(task.to)) ELSE delivered
  /\ UNCHANGED <<now, envCredentials, job, upload, resp, recorders, history,
                 scheduled, polls, probe>>

\* StreamFinish, were every result recorded instead of the successful ones
StreamFinishRecordsAll ==
  /\ inv.kind = "stream"
  /\ inv.i = Len(inv.tasksToSend)
  /\ LET good == inv.results
         successfulEmails ==
           [n \in 1..Len(good) |-> [email |-> good[n].email, subject |-> good[n].subject]]
     IN recorders' = Spawn(successfulEmails)
  /\ job' = CloseJob(inv.updatedJob, inv.failedCount)
  /\ resp' = [kind |-> "result", total |-> Len(inv.tasksToSend),
              success |-> inv.successCount, failed |-> inv.failedCount,
              skipped |-> inv.skippedCount]
  /\ inv' = IdleInv
  /\ UNCHANGED <<now, envCredentials, upload, history, scheduled, polls, delivered, probe>>

\* after the loop: as in /api/send, with each result's own subject and the
\* skipped count in the complete event
StreamFinish ==
  /\ inv.kind = "stream"
  /\ inv.i = Len(inv.tasksToSend)
  /\ LET good == SelectSeq(inv.results, LAMBDA r : r.success)
         successfulEmails ==
           [n \in 1..Len(good) |-> [email |-> good[n].email, subject |-> good[n].subject]]
     IN recorders' = Spawn(successfulEmails)
  /\ job' = CloseJob(inv.updatedJob, inv.failedCount)
  /\ resp' = [kind |-> "result", total |-> Len(inv.tasksToSend),
              success |-> inv.successCount, failed |-> inv.failedCount,
              skipped |-> inv.skippedCount]
  /\ inv' = IdleInv
  /\ UNCHANGED <<now, envCredentials, upload, history, scheduled, polls, delivered, probe>>

\* ====================================================== ledger recording

\* The two store round trips of recordSentEmail, for the call a recorder
\* holds in state c = [todo, phase, existing]: the select, which yields null
\* when the store fails, and the update or insert, which is lost when the
\* store fails or refuses it.
ReadStep(c, storeOk) ==
  [c EXCEPT !.phase = "write",
            !.existing = IF storeOk
                         THEN SelectHistory(history, NormalizeEmail(c.todo[1].email))
                         ELSE NoRow]

WriteStep(c) == [todo |-> Tail(c.todo), phase |-> "read", existing |-> NoRow]

HistoryAfter(c, storeOk) ==
  IF storeOk
  THEN WriteHistory(history, NormalizeEmail(c.todo[1].email), c.todo[1].subject, c.existing)
  ELSE history

RemoveAt(q, n) == SubSeq(q, 1, n - 1) \o SubSeq(q, n + 1, Len(q))

\* a recordSentEmails call running in the background reads the row
RecorderRead(r, storeOk) ==
  /\ r \in 1..Len(recorders)
  /\ recorders[r].phase = "read"
  /\ recorders' = [recorders EXCEPT ![r] = ReadStep(@, storeOk)]
  /\ UNCHANGED <<now, envCredentials, job, upload, inv, resp, history, scheduled,
                 polls, delivered, probe>>

\* it writes the row and goes on to its next address, or ends
RecorderWrite(r, storeOk) ==
  /\ r \in 1..Len(recorders)
  /\ recorders[r].phase = "write"
  /\ history' = HistoryAfter(recorders[r], storeOk)
  /\ recorders' = IF Len(recorders[r].todo) = 1 THEN RemoveAt(recorders, r)
                  ELSE [recorders EXCEPT ![r] = WriteStep(@)]
  /\ UNCHANGED <<now, envCredentials, job, upload, inv, resp, scheduled, polls,
                 delivered, probe>>

\* ================================================================ poller

PollLimit == 20

IdlePoll == [pc |-> "idle", due |-> <<>>, k |-> 0, rec |-> [todo |-> <<>>, phase |-> "read", existing |-> NoRow],
             processed |-> 0, success |-> 0, failed |-> 0, waits |-> 0]

\* ascending scheduled_for; rows of equal scheduled_for in id order
SortedIds(table, ids) ==
  [n \in 1..Cardinality(ids) |->
     CHOOSE x \in ids :
       Cardinality({y \in ids :
                      \/ table[y].scheduled_for < table[x].scheduled_for
                      \/ table[y].scheduled_for = table[x].scheduled_for /\ y < x}) = n - 1]

Take(q, n) == SubSeq(q, 1, IF Len(q) < n THEN Len(q) ELSE n)

getDueEmailsUnlimited(table, t, limit) ==
  SortedIds(table, {id \in 1..Len(table) :
                      table[id].status = "pending" /\ table[id].scheduled_for <= t})

\* getDueEmails(limit): the ids of the rows selected
getDueEmails(table, t, limit) ==
  Take(SortedIds(table, {id \in 1..Len(table) :
                           table[id].status = "pending" /\ table[id].scheduled_for <= t}),
       limit)

\* the rows a poll in flight has still to send
Remaining(q) ==
  IF q.pc = "send" THEN {q.due[n] : n \in q.k..Len(q.due)}
  ELSE IF q.pc = "record" THEN {q.due[n] : n \in (q.k + 1)..Len(q.due)}
  ELSE {}

\* the times a row was, or is about to be, handed to the transport
Taken(id) == scheduled[id].attempts + Cardinality({p \in Polls : id \in Remaining(polls[p])})

\* PollStart, were the rows another poll holds left to that poll
PollStartLeavesHeld(p, storeOk) ==
  /\ polls[p].pc = "idle"
  /\ \E dueEmails \in {IF storeOk
                       THEN SelectSeq(getDueEmails(scheduled, now, PollLimit),
                                      LAMBDA id : \A q \in Polls : id \notin Remaining(polls[q]))
                       ELSE <<>>} :
        /\ \A n \in 1..Len(dueEmails) : Taken(dueEmails[n]) < MaxAttempts
        /\ polls' = [polls EXCEPT ![p] =
                    IF dueEmails = <<>> THEN IdlePoll
                    ELSE [IdlePoll EXCEPT !.pc = "send", !.due = dueEmails, !.k = 1]]
  /\ UNCHANGED <<now, envCredentials, job, upload, inv, resp, recorders, history,
                 scheduled, delivered, probe>>

\* processDueEmails starts: the query, which yields nothing when the store
\* fails. (A poll is started only while its rows are within MaxAttempts.)
PollStart(p, storeOk) ==
  /\ polls[p].pc = "idle"
  /\ \E dueEmails \in {IF storeOk THEN getDueEmails(scheduled, now, PollLimit) ELSE <<>>} :
        /\ \A n \in 1..Len(dueEmails) : Taken(dueEmails[n]) < MaxAttempts
        /\ polls' = [polls EXCEPT ![p] =
                    IF dueEmails = <<>> THEN IdlePoll
                    ELSE [IdlePoll EXCEPT !.pc = "send", !.due = dueEmails, !.k = 1]]
  /\ UNCHANGED <<now, envCredentials, job, upload, inv, resp, recorders, history,
                 scheduled, delivered, probe>>

updateEmailStatusErrorOnly(table, id, status, error) ==
  [table EXCEPT ![id].error_message = IF error # "" THEN error ELSE @]

\* updateEmailStatus(id, status, error): an update by id alone
updateEmailStatus(table, id, status, error) ==
  [table EXCEPT ![id].status = status,
                ![id].error_message = IF error # "" THEN error ELSE @]

\* the poll's position after the row at k is dealt with
PollAdvance(q) ==
  IF q.k = Len(q.due) THEN IdlePoll
  ELSE [q EXCEPT !.pc = "send", !.k = @ + 1, !.waits = @ + 1]

\* PollSend with a failed status write taken for a failed send
PollSendStoreErrorFails(p, success, storeOk) ==
  /\ polls[p].pc = "send"
  /\ LET q == polls[p]
         id == q.due[q.k]
         row == scheduled[id]
         handed == [scheduled EXCEPT ![id].attempts = @ + 1]
         counted == [q EXCEPT !.processed = @ + 1,
                              !.success = IF success /\ storeOk THEN @ + 1 ELSE @,
                              !.failed = IF success /\ storeOk THEN @ ELSE @ + 1]
     IN /\ scheduled' =
             IF storeOk
             THEN updateEmailStatus(handed, id, IF success THEN "sent" ELSE "failed",
                                    IF success THEN "" ELSE "transport error")
             ELSE handed
        /\ delivered' = IF success THEN Bump(delivered, NormalizeEmail(row.to_email))
                        ELSE delivered
        /\ polls' = [polls EXCEPT ![p] =
                       IF success /\ storeOk
                       THEN [counted EXCEPT !.pc = "record",
                               !.rec = [todo |-> <<[email |-> row.to_email, subject |-> row.subject]>>,
                                        phase |-> "read", existing |-> NoRow]]
                       ELSE PollAdvance(counted)]
  /\ UNCHANGED <<now, envCredentials, job, upload, inv, resp, recorders, history, probe>>

\* sendEmail for the row at k and the status write, which the store may fail
PollSend(p, success, storeOk) ==
  /\ polls[p].pc = "send"
  /\ LET q == polls[p]
         id == q.due[q.k]
         row == scheduled[id]
         handed == [scheduled EXCEPT ![id].attempts = @ + 1]
         counted == [q EXCEPT !.processed = @ + 1,
                              !.success = IF success THEN @ + 1 ELSE @,
                              !.failed = IF success THEN @ ELSE @ + 1]
     IN /\ scheduled' =
             IF storeOk
             THEN updateEmailStatus(handed, id, IF success THEN "sent" ELSE "failed",
                                    IF success THEN "" ELSE "transport error")
             ELSE handed
        /\ delivered' = IF success THEN Bump(delivered, NormalizeEmail(row.to_email))
                        ELSE delivered
        /\ polls' = [polls EXCEPT ![p] =
                       IF success
                       THEN [counted EXCEPT !.pc = "record",
                               !.rec = [todo |-> <<[email |-> row.to_email, subject |-> row.subject]>>,
                                        phase |-> "read", existing |-> NoRow]]
                       ELSE PollAdvance(counted)]
  /\ UNCHANGED <<now, envCredentials, job, upload, inv, resp, recorders, history, probe>>

\* the awaited recordSentEmail of a row that was sent: its read
PollRecordRead(p, storeOk) ==
  /\ polls[p].pc = "record"
  /\ polls[p].rec.phase = "read"
  /\ polls' = [polls EXCEPT ![p].rec = ReadStep(@, storeOk)]
  /\ UNCHANGED <<now, envCredentials, job, upload, inv, resp, recorders, history,
                 scheduled, delivered, probe>>

\* its write, after which the poll goes on to the next row
PollRecordWrite(p, storeOk) ==
  /\ polls[p].pc = "record"
  /\ polls[p].rec.phase = "write"
  /\ history' = HistoryAfter(polls[p].rec, storeOk)
  /\ polls' = [polls EXCEPT ![p] = PollAdvance([@ EXCEPT !.rec = IdlePoll.rec])]
  /\ UNCHANGED <<now, envCredentials, job, upload, inv, resp, recorders, scheduled,
                 delivered, probe>>

\* ================================================================ system

NoProbe == [fn |-> "none"]

Init ==
  /\ now = DueInstant - 10 * MsPerMinute
  /\ envCredentials = FALSE
  /\ job = NoJob
  /\ upload = NoUpload
  /\ inv = IdleInv
  /\ resp = NoResp
  /\ recorders = <<>>
  /\ history = <<>>
  /\ scheduled = <<>>
  /\ polls = [p \in Polls |-> IdlePoll]
  /\ delivered = <<>>
  /\ probe = NoProbe

\* the inputs the environment supplies
StoreOutcomes == BOOLEAN
ValidationReasons ==
  {"", "invalid format", "invalid domain", "temporary mailbox", "no MX record"}

Environment ==
  \/ Tick
  \/ \E data \in Sheets, emailConfig \in BOOLEAN, storeOk \in StoreOutcomes :
       job.id < MaxUploads /\ Upload(data, emailConfig, storeOk)

Dispatch ==
  \/ \E sendAll \in BOOLEAN, sel \in Selections(job) : SendStart(sendAll, sel)
  \/ \E success \in BOOLEAN : SendStep(success)
  \/ SendFinish
  \/ \E sel \in Selections(job) : StreamStart(sel)
  \/ \E reason \in ValidationReasons, success \in BOOLEAN : StreamStep(reason, success)
  \/ StreamFinish
  \/ \E r \in 1..Len(recorders), storeOk \in StoreOutcomes : RecorderRead(r, storeOk)
  \/ \E r \in 1..Len(recorders), storeOk \in StoreOutcomes : RecorderWrite(r, storeOk)

Poller ==
  \/ \E p \in Polls, storeOk \in StoreOutcomes : PollStart(p, storeOk)
  \/ \E p \in Polls, success \in BOOLEAN, storeOk \in StoreOutcomes :
       PollSend(p, success, storeOk)
  \/ \E p \in Polls, storeOk \in StoreOutcomes : PollRecordRead(p, storeOk)
  \/ \E p \in Polls, storeOk \in StoreOutcomes : PollRecordWrite(p, storeOk)

Next == Environment \/ Dispatch \/ Poller

\* the whole program
Spec == Init /\ [][Next]_vars

\* the client's side alone: uploads and the dispatch of the Job
SpecDispatch == Init /\ [][Environment \/ Dispatch]_vars

\* the poller's side alone: uploads and overlapping polls
SpecPoll == Init /\ [][Environment \/ Poller]_vars

\* ------------------------------------- one mailbox, sheet after sheet

MaxResends == 4   \* uploads of the sheet in one behaviour

\* a sheet of one undated row, sent with the sender's credentials in the form
ResendSheet == <<Row("ann@x.io", "s1", "", "")>>

\* The sheet is uploaded and sent with /api/send, again and again, one
\* invocation after the other, while the store answers every request.
NextResend ==
  \/ job.id < MaxResends /\ Upload(ResendSheet, TRUE, TRUE)
  \/ \E sendAll \in BOOLEAN : SendStart(sendAll, NoSelection)
  \/ \E success \in BOOLEAN : SendStep(success)
  \/ SendFinish
  \/ \E r \in 1..Len(recorders) : RecorderRead(r, TRUE)
  \/ \E r \in 1..Len(recorders) : RecorderWrite(r, TRUE)

SpecResend == Init /\ [][NextResend]_vars

\* ---------------------------------------- two record calls side by side

MaxBatch == 2     \* addresses in one recordSentEmails call

\* what a call is asked to record: one mailbox written in two ways, and another
RecordEntries ==
  { [email |-> "ann@x.io", subject |-> "s1"],
    [email |-> " Ann@X.io", subject |-> "s2"],
    [email |-> "bob@y.io", subject |-> "s3"] }

RecordCalls == SeqsUpTo(RecordEntries, MaxBatch) \ {<<>>}

\* the ledger before the calls: empty, or one earlier send to the mailbox
LedgerStarts == {<<>>, "ann@x.io" :> HistoryRow("ann@x.io", 1, <<"s0">>)}

\* the module of email-history the calls come from
Stores == {"supabase", "file"}

\* a recordSentEmails call that has not yet touched the store
Recording(emails) == [todo |-> emails, phase |-> "read", existing |-> NoRow]

\* RecorderFile, were every entry applied to the ledger as it was loaded
RecorderFileFromSnapshot(r) ==
  /\ r \in 1..Len(recorders)
  /\ recorders[r].phase = "read"
  /\ history' =
       [k \in DOMAIN history \cup {NormalizeEmail(recorders[r].todo[n].email) :
                                      n \in 1..Len(recorders[r].todo)} |->
          LET last == {n \in 1..Len(recorders[r].todo) :
                         /\ NormalizeEmail(recorders[r].todo[n].email) = k
                         /\ \A m \in (n + 1)..Len(recorders[r].todo) :
                              NormalizeEmail(recorders[r].todo[m].email) # k}
          IN IF last = {} THEN history[k]
             ELSE recordSentEmailFile(history, k,
                                      recorders[r].todo[CHOOSE n \in last : TRUE].subject)[k]]
  /\ recorders' = RemoveAt(recorders, r)
  /\ UNCHANGED <<now, envCredentials, job, upload, inv, resp, scheduled, polls,
                 delivered, probe>>

\* recordSentEmails of the file store: one synchronous load, change and save
RecorderFile(r) ==
  /\ r \in 1..Len(recorders)
  /\ recorders[r].phase = "read"
  /\ history' = recordSentEmailsFile(history, recorders[r].todo)
  /\ recorders' = RemoveAt(recorders, r)
  /\ UNCHANGED <<now, envCredentials, job, upload, inv, resp, scheduled, polls,
                 delivered, probe>>

\* two calls are running over a ledger; probe keeps what they were given
InitLedger ==
  /\ now = DueInstant
  /\ envCredentials = FALSE
  /\ job = NoJob
  /\ upload = NoUpload
  /\ inv = IdleInv
  /\ resp = NoResp
  /\ scheduled = <<>>
  /\ polls = [p \in Polls |-> IdlePoll]
  /\ delivered = <<>>
  /\ \E start \in LedgerStarts, store \in Stores, a \in RecordCalls, b \in RecordCalls :
       /\ history = start
       /\ recorders = <<Recording(a), Recording(b)>>
       /\ probe = [fn |-> "record", store |-> store, before |-> start,
                   calls |-> <<a, b>>]

\* the steps of the two calls, in any interleaving; the store answers every
\* request
NextLedger ==
  \/ \E r \in 1..Len(recorders) : probe.store = "supabase" /\ RecorderRead(r, TRUE)
  \/ \E r \in 1..Len(recorders) : probe.store = "supabase" /\ RecorderWrite(r, TRUE)
  \/ \E r \in 1..Len(recorders) : probe.store = "file" /\ RecorderFile(r)

SpecLedger == InitLedger /\ [][NextLedger]_vars

\* ------------------------------------------------ direct calls: the ledger

\* nothing but the store and the clock: no job, no invocation, no recording
NothingRunning ==
  /\ envCredentials = FALSE
  /\ job = NoJob
  /\ upload = NoUpload
  /\ inv = IdleInv
  /\ resp = NoResp
  /\ recorders = <<>>
  /\ scheduled = <<>>
  /\ polls = [p \in Polls |-> IdlePoll]
  /\ delivered = <<>>

MaxCount == 4     \* sent_count of a row of the ledgers queried
MaxQuery == 2     \* addresses in one query

\* the ledgers queried: for each of two mailboxes no row, or a row with a
\* count up to MaxCount
LedgerKeys == {"ann@x.io", "bob@y.io"}
Ledgers ==
  UNION {[K -> {HistoryRow("", c, <<"s0">>) : c \in 1..MaxCount}] : K \in SUBSET LedgerKeys}
Keyed(h) == [k \in DOMAIN h |-> [h[k] EXCEPT !.email = k]]

\* the addresses asked about: as stored, in another spelling, and unknown
QueryEmails == {"ann@x.io", " Ann@X.io ", "bob@y.io", "cy@z.io"}
Queries == SeqsUpTo(QueryEmails, MaxQuery)
Thresholds == {2, 3}

InitOverLimit ==
  /\ NothingRunning
  /\ now = DueInstant
  /\ \E h \in Ledgers, store \in Stores, emails \in Queries, maxSendCount \in Thresholds :
       /\ history = Keyed(h)
       /\ probe = [fn |-> "checkDuplicateEmails", store |-> store, emails |-> emails,
                   maxSendCount |-> maxSendCount, returned |-> FALSE, records |-> {}]

\* the records a sequence of them holds
Elements(q) == {q[i] : i \in 1..Len(q)}

\* checkDuplicateEmails(emails, maxSendCount) of either module returns; the
\* file store's takes no second parameter
CallCheckDuplicateEmails ==
  /\ probe.fn = "checkDuplicateEmails"
  /\ ~probe.returned
  /\ probe' = [probe EXCEPT
       !.returned = TRUE,
       !.records = IF probe.store = "supabase"
                   THEN checkDuplicateEmails(history, probe.emails, probe.maxSendCount)
                   ELSE Elements(checkDuplicateEmailsFile(history, probe.emails))]
  /\ UNCHANGED <<now, envCredentials, job, upload, inv, resp, recorders, history,
                 scheduled, polls, delivered>>

SpecOverLimit == InitOverLimit /\ [][CallCheckDuplicateEmails]_vars

\* ------------------------------------------ uploads of repetitive sheets

MaxFileRows == 5  \* rows of a sheet that repeats one mailbox

\* one mailbox in two spellings, once with the row marked as sent, and another
RepeatRows ==
  { Row("ann@x.io", "s1", "", ""),
    Row(" Ann@X.io", "s2", "", ""),
    Row("ann@x.io", "s3", "", "") @@ ("Status" :> "sent"),
    Row("bob@y.io", "s1", "", "") }

RepeatSheets == SeqsUpTo(RepeatRows, MaxFileRows) \ {<<>>}

\* the ledger before the upload: empty, or the mailbox far over the limit
RepeatLedgers == {<<>>, "ann@x.io" :> HistoryRow("ann@x.io", MaxCount, <<"s0">>)}

InitRepeat ==
  /\ NothingRunning
  /\ now = DueInstant
  /\ history \in RepeatLedgers
  /\ probe = NoProbe

\* one upload of such a sheet
NextRepeat ==
  \E data \in RepeatSheets, storeOk \in StoreOutcomes :
    job.id < MaxUploads /\ Upload(data, FALSE, storeOk)

SpecRepeat == InitRepeat /\ [][NextRepeat]_vars

\* ---------------------------------------------- direct calls: schedules

\* what the Send Date cell holds: nothing, the day of DueInstant written in
\* three ways and as a serial with and without a time of day, text that is no
\* date, text only the engine's parser reads, a day long ago, a later day
DateCells ==
  {"", "3/14/2025", "2025-03-14", " 2025/3/14 ", "45730", "45730.5", "tomorrow",
   "March 15, 2025", "1/1/2000", "3/20/2025"}

\* what the Send Time cell holds: nothing, 24 h and 12 h clock strings, a
\* serial fraction, text that is no time
TimeCells == {"", "00:01", "0:01 am", "9:30 PM", "0.5", "noon"}

\* the two implementations: lib/supabase.ts (fixed offset) and lib/excel.ts
Variants == {"pst", "dst"}

InitSchedule ==
  /\ NothingRunning
  /\ history = <<>>
  /\ now \in Instants
  /\ \E variant \in Variants, sendDate \in DateCells, sendTime \in TimeCells :
       probe = [fn |-> "calculateSchedule", variant |-> variant, sendDate |-> sendDate,
                sendTime |-> sendTime, returned |-> FALSE, result |-> Immediate(0, "")]

\* calculateSchedule(sendDate, sendTime) of either module returns
CallCalculateSchedule ==
  /\ probe.fn = "calculateSchedule"
  /\ ~probe.returned
  /\ probe' = [probe EXCEPT
       !.returned = TRUE,
       !.result = IF probe.variant = "pst"
                  THEN calculateSchedule(probe.sendDate, probe.sendTime, now)
                  ELSE calculateScheduleDST(probe.sendDate, probe.sendTime, now)]
  /\ UNCHANGED <<now, envCredentials, job, upload, inv, resp, recorders, history,
                 scheduled, polls, delivered>>

SpecSchedule == InitSchedule /\ [][CallCalculateSchedule]_vars

\* the display string of an instant
Display(variant, instant) ==
  IF variant = "pst" THEN utcToBeijingTimeString(instant) ELSE formatToBeijingTime(instant)

\* --------------------------------------- direct calls: wall clock to UTC

\* the calendar days converted: 2025-03-06 .. 2025-04-03, DaysBefore days
\* before 14 March to LastDay days after it
DaysBefore == 8
LastDay == 20
CalendarDays == {CivilFromDays(ModelEpochDay + n) : n \in (0 - DaysBefore)..LastDay}
ClockHours == {0, 7, 8, 16, 23}
ClockMinutes == {0, 1, 30, 59}

InitInstant ==
  /\ NothingRunning
  /\ history = <<>>
  /\ now = DueInstant
  /\ \E variant \in Variants, date \in CalendarDays, hours \in ClockHours,
        minutes \in ClockMinutes :
       probe = [fn |-> "pacificTimeToUtc", variant |-> variant,
                year |-> date.year, month |-> date.month, day |-> date.day,
                hours |-> hours, minutes |-> minutes,
                returned |-> FALSE, instant |-> 0, dayAfter |-> 0, display |-> ""]

\* the conversion of either module, for (y, m, d)
ToUtc(variant, y, m, d, hours, minutes) ==
  IF variant = "pst" THEN pacificTimeToUtc(y, m, d, hours, minutes)
  ELSE pacificTimeToUtcDST(y, m, d, hours, minutes)

\* The wall-clock time is converted for the day given and for the calendar
\* day after it, and the first instant is rendered for display.
CallPacificTimeToUtc ==
  /\ probe.fn = "pacificTimeToUtc"
  /\ ~probe.returned
  /\ LET Answer(instant, next) ==
           probe' = [probe EXCEPT
             !.returned = TRUE,
             !.instant = instant,
             !.dayAfter = ToUtc(probe.variant, next.year, next.month, next.day,
                                probe.hours, probe.minutes),
             !.display = Display(probe.variant, instant)]
     IN Answer(ToUtc(probe.variant, probe.year, probe.month, probe.day,
                     probe.hours, probe.minutes),
               CivilFromDays(DaysFromCivil(probe.year, probe.month, probe.day) + 1))
  /\ UNCHANGED <<now, envCredentials, job, upload, inv, resp, recorders, history,
                 scheduled, polls, delivered>>

SpecInstant == InitInstant /\ [][CallPacificTimeToUtc]_vars

\* ------------------------------------------- one row parsed a second time

ParsedRows ==
  {Row("ann@x.io", "s1", sendDate, sendTime) :
     sendDate \in {"", "3/14/2025", "3/20/2025", "1/1/2000", "tomorrow"},
     sendTime \in {"", "00:01", "9:30 PM"}}
  \cup {Row("", "s1", "", ""), Row("ann@x.io", "", "3/14/2025", "00:01"),
        Row("ann@x.io", "s1", "", "") @@ ("Status" :> "sent")}

NotParsed == [kind |-> "none"]

InitParseTwice ==
  /\ NothingRunning
  /\ history = <<>>
  /\ now \in Instants
  /\ \E row \in ParsedRows :
       probe = [fn |-> "ParseRow", row |-> row, first |-> NotParsed, firstAt |-> 0,
                second |-> NotParsed, secondAt |-> 0]

\* the row is parsed, as the second row of its sheet, with Date.now() = now
CallParseRow ==
  /\ probe.fn = "ParseRow"
  /\ probe.second = NotParsed
  /\ probe' = IF probe.first = NotParsed
              THEN [probe EXCEPT !.first = ParseRow(probe.row, 2, now), !.firstAt = now]
              ELSE [probe EXCEPT !.second = ParseRow(probe.row, 2, now), !.secondAt = now]
  /\ UNCHANGED <<now, envCredentials, job, upload, inv, resp, recorders, history,
                 scheduled, polls, delivered>>

NextParseTwice == CallParseRow \/ Tick

SpecParseTwice == InitParseTwice /\ [][NextParseTwice]_vars

\* ------------------------------------------------- a poll and a backlog

MinBacklog == 19
MaxBacklog == 22

\* Row id of a backlog of n rows for one mailbox. The rows fall due in an
\* order that is not the order of their ids; row `odd`, if any, is not
\* pending or not yet due.
BacklogRow(id, odd, how) ==
  [id |-> id, job_id |-> 1, to_email |-> "ann@x.io", subject |-> "s1",
   scheduled_for |-> IF id = odd /\ how = "later" THEN DueInstant + 10 * MsPerMinute
                     ELSE DueInstant - ((id * 7) % 23) * 1000,
   status |-> IF id = odd /\ how \in {"sent", "failed"} THEN how ELSE "pending",
   error_message |-> "", attempts |-> 0]

InitBacklog ==
  /\ now = DueInstant + 12000
  /\ envCredentials = FALSE
  /\ job = NoJob
  /\ upload = NoUpload
  /\ inv = IdleInv
  /\ resp = NoResp
  /\ recorders = <<>>
  /\ history = <<>>
  /\ polls = [p \in Polls |-> IdlePoll]
  /\ delivered = <<>>
  /\ \E n \in MinBacklog..MaxBacklog, odd \in 0..MaxBacklog,
        how \in {"later", "sent", "failed"} :
       /\ odd <= n
       /\ scheduled = [id \in 1..n |-> BacklogRow(id, odd, how)]
  /\ \E transport \in BOOLEAN, store \in StoreOutcomes :
       probe = [fn |-> "processDueEmails", transport |-> transport, store |-> store]

\* one poll after another; the transport and the store answer each in one
\* way throughout, and the query is always answered
NextBacklog ==
  \/ PollStart(1, TRUE)
  \/ PollSend(1, probe.transport, probe.store)
  \/ PollRecordRead(1, probe.store)
  \/ PollRecordWrite(1, probe.store)

SpecBacklog == InitBacklog /\ [][NextBacklog]_vars

\* the same under the scheduler: the cron trigger keeps firing and an
\* invocation that has started runs to its end
\* the rows followed: the row that is not like the others, the first row
\* in scheduled_for order (13), and the last ones (20, then 10), which a
\* first query of 20 leaves out
WatchedRows == {3, 10, 13, 20}

InitWatch ==
  /\ now = DueInstant + 12000
  /\ envCredentials = FALSE
  /\ job = NoJob
  /\ upload = NoUpload
  /\ inv = IdleInv
  /\ resp = NoResp
  /\ recorders = <<>>
  /\ history = <<>>
  /\ polls = [p \in Polls |-> IdlePoll]
  /\ delivered = <<>>
  /\ \E n \in {MaxBacklog - 1, MaxBacklog}, odd \in {0, 3},
        how \in {"later", "sent", "failed"} :
       /\ odd = 0 => how = "later"
       /\ scheduled = [id \in 1..n |-> BacklogRow(id, odd, how)]
  /\ \E transport \in BOOLEAN, store \in StoreOutcomes, watch \in WatchedRows :
       /\ probe = [fn |-> "processDueEmails", transport |-> transport, store |-> store,
                   watch |-> watch]

SpecBacklogFair == InitWatch /\ [][NextBacklog]_vars /\ WF_vars(NextBacklog)

\* ------------------------------------------ uploads while the store answers

NextUpload ==
  \/ Tick
  \/ \E data \in Sheets, emailConfig \in BOOLEAN :
       job.id < MaxUploads /\ Upload(data, emailConfig, TRUE)

SpecUpload == Init /\ [][NextUpload]_vars

\* ------------------------------------------------ direct calls: the parser

MaxSheetRows == 3

\* rows of every kind: two that yield a task, under different column labels,
\* one without an address, one with a malformed address, one without a
\* subject, one without a body, and one marked as sent
ParserRows ==
  { Row("ann@x.io", "s1", "", ""),
    ("to" :> " bob@y.org ") @@ ("Subject Line" :> "s2") @@ ("Email Body" :> "hi"),
    Row("", "s1", "", ""),
    Row("ann@x", "s1", "", ""),
    Row("ann@x.io", "", "", ""),
    ("Email" :> "ann@x.io") @@ ("Subject" :> "s1") @@ ("Content" :> "  "),
    Row("ann@x.io", "s1", "", "") @@ ("Status" :> " Sent ") }

InitParser ==
  /\ NothingRunning
  /\ history = <<>>
  /\ now = DueInstant
  /\ \E data \in SeqsUpTo(ParserRows, MaxSheetRows) :
       probe = [fn |-> "parseExcelBuffer", data |-> data, returned |-> FALSE,
                result |-> [success |-> FALSE, tasks |-> <<>>, error |-> "",
                            skippedCount |-> 0]]

CallParseExcelBuffer ==
  /\ probe.fn = "parseExcelBuffer"
  /\ ~probe.returned
  /\ probe' = [probe EXCEPT !.returned = TRUE,
                            !.result = parseExcelBuffer(probe.data, now)]
  /\ UNCHANGED <<now, envCredentials, job, upload, inv, resp, recorders, history,
                 scheduled, polls, delivered>>

SpecParser == InitParser /\ [][CallParseExcelBuffer]_vars

\* ------------------------------- the client and the poller on one sheet

\* a sheet of one dated row, and one of an undated and a dated row
BothSheets ==
  { <<Row("Ann@x.io", "s2", "3/14/2025", "00:01")>>,
    <<Row("ann@x.io", "s1", "", ""), Row("Ann@x.io", "s2", "3/14/2025", "00:01")>> }

\* uploads with credentials, the dispatch of the Job and the polls, while the
\* store answers
NextBoth ==
  \/ Tick
  \/ \E data \in BothSheets : job.id < MaxUploads /\ Upload(data, TRUE, TRUE)
  \/ \E sendAll \in BOOLEAN : SendStart(sendAll, NoSelection)
  \/ \E success \in BOOLEAN : SendStep(success)
  \/ SendFinish
  \/ StreamStart(NoSelection)
  \/ \E reason \in ValidationReasons, success \in BOOLEAN : StreamStep(reason, success)
  \/ StreamFinish
  \/ \E r \in 1..Len(recorders) : RecorderRead(r, TRUE)
  \/ \E r \in 1..Len(recorders) : RecorderWrite(r, TRUE)
  \/ \E p \in Polls : PollStart(p, TRUE)
  \/ \E p \in Polls, success \in BOOLEAN : PollSend(p, success, TRUE)
  \/ \E p \in Polls : PollRecordRead(p, TRUE)
  \/ \E p \in Polls : PollRecordWrite(p, TRUE)

SpecBoth == Init /\ [][NextBoth]_vars

\* ----------------------------------------------- one record call alone

MaxList == 3      \* entries of the one recordSentEmails call

\* the ledger before the call: empty, one earlier send to the mailbox, or a
\* row whose list of subjects is full
BatchStarts ==
  LedgerStarts \cup {"ann@x.io" :> HistoryRow("ann@x.io", 6, <<"p5", "p4", "p3", "p2", "p1">>)}

\* one call is running over a ledger; probe keeps what it was given
InitBatch ==
  /\ now = DueInstant
  /\ envCredentials = FALSE
  /\ job = NoJob
  /\ upload = NoUpload
  /\ inv = IdleInv
  /\ resp = NoResp
  /\ scheduled = <<>>
  /\ polls = [p \in Polls |-> IdlePoll]
  /\ delivered = <<>>
  /\ \E start \in BatchStarts, store \in Stores, a \in SeqsUpTo(RecordEntries, MaxList) \ {<<>>} :
       /\ history = start
       /\ recorders = <<Recording(a)>>
       /\ probe = [fn |-> "record", store |-> store, before |-> start, calls |-> <<a>>]

SpecBatch == InitBatch /\ [][NextLedger]_vars

\* ================================================================ claims

Terminal(status) == status \in {"sent", "failed"}

\* C1: once the status of a task of the Job, or of a row of scheduled_emails,
\* is sent or failed, no step of any dispatch or poll changes it again.
C1_TerminalStatus ==
  [][ /\ \A id \in 1..Len(scheduled) :
           Terminal(scheduled[id].status) => scheduled'[id].status = scheduled[id].status
      /\ job'.id = job.id =>
           \A i \in 1..Len(job.tasks) :
             Terminal(job.tasks[i].status) => job'.tasks[i].status = job.tasks[i].status
    ]_vars

\* C1, the case: two polls hold the same row in what their query returned
C1_TwoPollsOneRow ==
  \E id \in 1..Len(scheduled) : \A p \in Polls : id \in Remaining(polls[p])

\* the Job a dispatch has returned to the client
Returned == job.id # 0 /\ resp.kind = "result" /\ inv.kind = "idle"

\* C2: in the Job a dispatch returns, status is completed or failed exactly
\* when no task is pending, and it is failed exactly when some task is failed,
\* whichever invocation or check made the task fail.
C2_JobStatus ==
  Returned =>
    /\ job.status \in {"completed", "failed"} <=> isJobCompleted(job)
    /\ job.status = "failed" <=> \E i \in 1..Len(job.tasks) : job.tasks[i].status = "failed"

\* C2, the case: a returned Job with no pending task, one of them failed
C2_ClosedWithFailure ==
  /\ Returned
  /\ isJobCompleted(job)
  /\ \E i \in 1..Len(job.tasks) : job.tasks[i].status = "failed"

\* C2, its first half alone: closed exactly when no task is pending
C2_ClosedIffNonePending ==
  Returned => (job.status \in {"completed", "failed"} <=> isJobCompleted(job))

\* this step hands the task at position inv.i + 1 to sendEmail
HandsToTransport ==
  /\ inv.kind \in {"send", "stream"}
  /\ inv'.kind = inv.kind
  /\ inv'.i = inv.i + 1
  /\ ~inv'.results[inv'.i].skipped

\* the selection predicate of the dispatcher, for the task at index
MayBeDispatched(index) ==
  /\ job.tasks[index].status = "pending"
  /\ inv.selected.given => job.tasks[index].to \in inv.selected.set
  /\ inv.sendAll \/ job.tasks[index].scheduledFor <= now

\* C3: a dispatch hands a task to the mail transport only if the task is
\* pending, is in the inclusion set when one was given, and is due or the
\* force-all flag is set; so a task not yet due is not attempted without it.
C3_DispatchGate ==
  [][HandsToTransport => MayBeDispatched(inv.tasksToSend[inv.i + 1])]_vars

\* C3, the case: an invocation without the force-all flag has attempted a
\* task whose scheduledFor is still in the future
C3_FutureTaskAttempted ==
  /\ inv.kind \in {"send", "stream"}
  /\ ~inv.sendAll
  /\ \E n \in 1..inv.i :
       /\ ~inv.results[n].skipped
       /\ job.tasks[inv.tasksToSend[n]].scheduledFor > now

\* C3 for POST /api/send alone
C3_SendGate ==
  [][inv.kind = "send" /\ HandsToTransport
       => MayBeDispatched(inv.tasksToSend[inv.i + 1])]_vars

\* this step ends a dispatch invocation and returns its response
DispatchEnds == inv.kind \in {"send", "stream"} /\ inv'.kind = "idle"

\* one result per selected task, in the order of the Job's task array
AttemptedInOrder ==
  /\ Len(inv.results) = Len(inv.tasksToSend)
  /\ \A n \in 1..Len(inv.tasksToSend) :
       inv.results[n].email = job.tasks[inv.tasksToSend[n]].to
  /\ \A n \in 1..(Len(inv.tasksToSend) - 1) : inv.tasksToSend[n] < inv.tasksToSend[n + 1]

\* C4: when a dispatch invocation ends it has attempted exactly the selected
\* tasks, once each and in array order, whatever failed on the way; every
\* selected task is then sent or failed, and the success and failed counts it
\* reports add up to the number of selected tasks.
C4_EverySelectedTaskTallied ==
  [][DispatchEnds =>
       /\ AttemptedInOrder
       /\ \A n \in 1..Len(inv.tasksToSend) : Terminal(job'.tasks[inv.tasksToSend[n]].status)
       /\ resp'.success + resp'.failed = Len(inv.tasksToSend)]_vars

\* C4, the case: an invocation of two tasks has ended, the first of them
\* rejected or failed and the second attempted after it
C4_WentOnAfterFailure ==
  /\ Returned
  /\ resp.total = 2
  /\ resp.success = 1
  /\ job.tasks[1].status = "failed"
  /\ job.tasks[2].status = "sent"

\* C4 without the tally: order, once each, and no selected task left pending
C4_EverySelectedTaskAttempted ==
  [][DispatchEnds =>
       /\ AttemptedInOrder
       /\ \A n \in 1..Len(inv.tasksToSend) : Terminal(job'.tasks[inv.tasksToSend[n]].status)
       /\ resp'.success + resp'.failed + resp'.skipped = Len(inv.tasksToSend)]_vars

\* C4 for a poll: the rows are sent one at a time in the order of the query,
\* and the counts add up to the rows dealt with
C4_PollTally ==
  \A p \in Polls :
    /\ polls[p].processed = polls[p].success + polls[p].failed
    /\ polls[p].pc = "send" => polls[p].processed = polls[p].k - 1
    /\ polls[p].pc = "record" => polls[p].processed = polls[p].k
    /\ polls[p].pc # "idle" => polls[p].k \in 1..Len(polls[p].due)

\* the record operations the two calls hold for the normalized address k
OpsFor(k) ==
  {<<c, n>> \in (1..2) \X (1..MaxBatch) :
     n <= Len(probe.calls[c]) /\ NormalizeEmail(probe.calls[c][n].email) = k}

RecordedKeys ==
  {NormalizeEmail(e.email) : e \in RecordEntries}

\* for the address k the ledger holds every increment and every subject
AllRecorded(k) ==
  OpsFor(k) # {} =>
    /\ k \in DOMAIN history
    /\ history[k].sent_count =
         SelectHistory(probe.before, k).sent_count + Cardinality(OpsFor(k))
    /\ \A op \in OpsFor(k) :
         \E i \in 1..Len(history[k].subjects) :
           history[k].subjects[i] = probe.calls[op[1]][op[2]].subject

\* C5: when the record calls that ran side by side have ended, whatever the
\* interleaving of their reads and writes, the count of each address is
\* higher by the number of its record operations and holds their subjects.
C5_NoLostIncrement ==
  (probe.fn = "record" /\ recorders = <<>>) => \A k \in RecordedKeys : AllRecorded(k)

\* C5, the case: both calls have read the row of one address and neither has
\* written it yet
C5_BothReadBeforeWrite ==
  /\ probe.fn = "record"
  /\ Len(recorders) = 2
  /\ recorders[1].phase = "write"
  /\ recorders[2].phase = "write"
  /\ NormalizeEmail(recorders[1].todo[1].email) = NormalizeEmail(recorders[2].todo[1].email)

\* C5 for the file store: its calls are synchronous and lose nothing
C5_FileStoreKeepsAll ==
  (probe.fn = "record" /\ probe.store = "file" /\ recorders = <<>>)
    => \A k \in RecordedKeys : AllRecorded(k)

\* the transport has accepted this many messages for the normalized address k
Delivered(k) == IF k \in DOMAIN delivered THEN delivered[k] ELSE 0

\* C6: the ledger row of an address is created or changed only after the
\* transport has accepted a message for that address, and never counts more
\* than it accepted; a failed, rejected or unselected task changes nothing.
C6_LedgerOnlyAfterSuccess ==
  [][\A k \in DOMAIN history' :
       (k \notin DOMAIN history \/ history'[k] # history[k])
         => Delivered(k) >= 1 /\ history'[k].sent_count <= Delivered(k)]_vars

\* C6, the case: a dispatch sent to one address and had another rejected or
\* failed, and its recording has ended
C6_OneSentOneNot ==
  /\ Returned
  /\ recorders = <<>>
  /\ history # <<>>
  /\ \E i \in 1..Len(job.tasks) :
       /\ job.tasks[i].status = "failed"
       /\ NormalizeEmail(job.tasks[i].to) \notin DOMAIN history

\* no dispatch is running and every recording has ended
Quiet == inv.kind = "idle" /\ recorders = <<>>

\* C7: with dispatches run one after another over a ledger that was empty, the
\* count of an address is the number of messages the transport accepted for
\* it and never decreases; an upload then reports that count, and from three
\* on it returns the address among those over the limit.
C7_CountIsSends ==
  [][/\ Quiet' => \A k \in DOMAIN delivered' :
                    SelectHistory(history', k).sent_count = delivered'[k]
     /\ \A k \in DOMAIN history :
          k \in DOMAIN history' /\ history'[k].sent_count >= history[k].sent_count
     /\ (Quiet /\ job'.id # job.id) =>
          \A k \in DOMAIN delivered :
            /\ k \in DOMAIN upload'.emailSendCounts
            /\ upload'.emailSendCounts[k] = delivered[k]
            /\ delivered[k] >= 3 => \E d \in upload'.duplicates : d.email = k
    ]_vars

\* C7, the case: the sheet was sent twice and the recordings of both
\* invocations are still running
C7_TwoRecordingsRunning ==
  /\ probe.fn = "none"
  /\ inv.kind = "idle"
  /\ Len(recorders) = 2
  /\ Delivered("ann@x.io") = 2

\* the ledger records of the queried addresses whose count is at least the threshold
OverLimit(h, emails, threshold) ==
  {h[k] : k \in {e \in NormalizedSet(emails) \cap DOMAIN h : h[e].sent_count >= threshold}}

\* C8: findOverLimit(addresses, threshold) returns exactly the ledger records
\* of the queried addresses, matched after normalization, whose count is at
\* least the threshold: count = threshold is in, count = threshold - 1 is out,
\* and so is every address that was not asked about.
C8_ExactlyOverLimit ==
  (probe.fn = "checkDuplicateEmails" /\ probe.returned)
    => probe.records = OverLimit(history, probe.emails, probe.maxSendCount)

\* C8, the case: a query for two mailboxes, one at the threshold and one just
\* below it, has returned
C8_AtAndBelowThreshold ==
  /\ probe.fn = "checkDuplicateEmails"
  /\ probe.returned
  /\ probe.emails = <<" Ann@X.io ", "bob@y.io">>
  /\ "ann@x.io" \in DOMAIN history
  /\ "bob@y.io" \in DOMAIN history
  /\ history["ann@x.io"].sent_count = probe.maxSendCount
  /\ history["bob@y.io"].sent_count = probe.maxSendCount - 1

\* C8 for the module the routes import
C8_SupabaseExact ==
  (probe.fn = "checkDuplicateEmails" /\ probe.returned /\ probe.store = "supabase")
    => probe.records = OverLimit(history, probe.emails, probe.maxSendCount)

\* the tasks of the upload whose address normalizes to k
Occurrences(k) ==
  Cardinality({i \in 1..Len(upload.tasks) : NormalizeEmail(upload.tasks[i].to) = k})

\* C9: an upload flags an address as an in-file duplicate exactly when its
\* normalized form occurs more than 3 times among the tasks of that upload,
\* whatever the ledger holds; it reports the number of occurrences.
C9_FlaggedAboveThree ==
  upload.success =>
    /\ DOMAIN upload.inFileDuplicates =
         {k \in NormalizedSet([i \in 1..Len(upload.tasks) |-> upload.tasks[i].to]) :
            Occurrences(k) > 3}
    /\ \A k \in DOMAIN upload.inFileDuplicates : upload.inFileDuplicates[k] = Occurrences(k)

\* C9, the cases: four tasks for one mailbox in two spellings, flagged over an
\* empty ledger ...
C9_FourFlagged ==
  /\ upload.success
  /\ history = <<>>
  /\ Occurrences("ann@x.io") = 4
  /\ \E i \in 1..Len(upload.tasks) : upload.tasks[i].to = "Ann@X.io"
  /\ "ann@x.io" \in DOMAIN upload.inFileDuplicates

\* ... and three tasks, not flagged although the ledger has it over the limit
C9_ThreeNotFlagged ==
  /\ upload.success
  /\ history # <<>>
  /\ upload.duplicates # {}
  /\ Occurrences("ann@x.io") = 3
  /\ "ann@x.io" \notin DOMAIN upload.inFileDuplicates

\* the call finds no date in the cell
Unparseable(variant, sendDate) ==
  IF variant = "pst" THEN ~parseDate(sendDate).some
  ELSE sendDate = "" \/ ~ExcelDate(Trim(sendDate)).some

\* the instant the fixed-offset implementation computes from a date it parsed
ComputedInstant(date, time) ==
  pacificTimeToUtc(date.year, date.month, date.day, time.hours, time.minutes)

\* C10: computeSchedule answers with now, a delay of 0 and the display string
\* of now whenever the date is missing or unparseable or the instant it
\* computes is not after now, however long ago that is; otherwise with an
\* instant after now; it always answers.
C10_CollapsesToNow ==
  (probe.fn = "calculateSchedule" /\ probe.returned) =>
    /\ DOMAIN probe.result = {"delayHours", "scheduledTimestamp", "beijingTimeStr"}
    /\ probe.result.scheduledTimestamp >= now
    /\ probe.result.delayHours >= 0
    /\ probe.result.scheduledTimestamp = now =>
         probe.result = Immediate(now, Display(probe.variant, now))
    /\ Unparseable(probe.variant, probe.sendDate) => probe.result.scheduledTimestamp = now
    /\ probe.sendDate = "1/1/2000" => probe.result.scheduledTimestamp = now
    /\ (probe.variant = "pst" /\ ~Unparseable("pst", probe.sendDate)) =>
         probe.result.scheduledTimestamp =
           IF ComputedInstant(parseDate(probe.sendDate), parseTime(probe.sendTime)) <= now
           THEN now
           ELSE ComputedInstant(parseDate(probe.sendDate), parseTime(probe.sendTime))

\* C10, the case: the cell held a date the call parsed, the instant was
\* twelve seconds ago, and the call has answered
C10_JustPast ==
  /\ probe.fn = "calculateSchedule"
  /\ probe.returned
  /\ probe.variant = "pst"
  /\ probe.sendDate = "45730"
  /\ probe.sendTime = "0:01 am"
  /\ now = DueInstant + 12000
  /\ probe.result.scheduledTimestamp = now

\* C11: when the instant computeSchedule computes is after now, by however
\* little, it answers with that instant, a delay above 0 and the display
\* string of that instant in the target offset.
C11_FutureKeepsInstant ==
  (probe.fn = "calculateSchedule" /\ probe.returned) =>
    /\ probe.result.scheduledTimestamp > now =>
         /\ probe.result.delayHours > 0
         /\ probe.result.beijingTimeStr =
              Display(probe.variant, probe.result.scheduledTimestamp)
    /\ (probe.variant = "pst" /\ ~Unparseable("pst", probe.sendDate)
          /\ ComputedInstant(parseDate(probe.sendDate), parseTime(probe.sendTime)) > now) =>
         probe.result.scheduledTimestamp =
           ComputedInstant(parseDate(probe.sendDate), parseTime(probe.sendTime))

\* C11, the case: the call was made ten seconds before the instant asked for
C11_TenSecondsAhead ==
  /\ probe.fn = "calculateSchedule"
  /\ probe.returned
  /\ probe.sendDate = "3/14/2025"
  /\ probe.sendTime = "00:01"
  /\ probe.variant = "pst"
  /\ now = DueInstant - 10000
  /\ probe.result.scheduledTimestamp = DueInstant

\* C11 without the delay: the instant and its display string
C11_InstantAndDisplay ==
  (probe.fn = "calculateSchedule" /\ probe.returned /\ probe.result.scheduledTimestamp > now)
    => probe.result.beijingTimeStr = Display(probe.variant, probe.result.scheduledTimestamp)

\* C12: the conversion of wall-clock fields to an instant uses the one source
\* offset of -8 hours for every calendar date: the instant is
\* UTC(year, month, day, hours + 8, minutes), and the same time of day on the
\* next calendar day is exactly 24 hours later.
C12_OneOffset ==
  (probe.fn = "pacificTimeToUtc" /\ probe.returned) =>
    /\ probe.instant = DateUTC(probe.year, probe.month - 1, probe.day,
                               probe.hours - PACIFIC_OFFSET_HOURS, probe.minutes)
    /\ probe.dayAfter - probe.instant = 24 * MsPerHour

\* C12, the case: 14 March 2025 and the day after it have been converted
C12_AcrossTheSwitch ==
  /\ probe.fn = "pacificTimeToUtc"
  /\ probe.returned
  /\ probe.variant = "dst"
  /\ probe.month = 3
  /\ probe.day = 14

\* C12 for lib/supabase.ts alone
C12_FixedOffsetModule ==
  (probe.fn = "pacificTimeToUtc" /\ probe.returned /\ probe.variant = "pst") =>
    /\ probe.instant = DateUTC(probe.year, probe.month - 1, probe.day,
                               probe.hours - PACIFIC_OFFSET_HOURS, probe.minutes)
    /\ probe.dayAfter - probe.instant = 24 * MsPerHour

\* "YYYY-MM-DD HH:MM" written from calendar and clock fields
StampText(date, hours, minutes) ==
  ToString(date.year) \o "-" \o Pad2(date.month) \o "-" \o Pad2(date.day)
    \o " " \o Pad2(hours) \o ":" \o Pad2(minutes)

\* the calendar days a display string of the converted days can show
ShownDays == {CivilFromDays(ModelEpochDay + n) : n \in (0 - DaysBefore - 1)..(LastDay + 1)}

\* C13 as stated: converting calendar fields with pacificTimeToUtc (source
\* offset -8) and rendering the instant with utcToBeijingTimeString (target
\* offset +8) gives a display string whose HH:MM is the original HH:MM.
C13_RoundTrip ==
  (probe.fn = "pacificTimeToUtc" /\ probe.returned /\ probe.variant = "pst") =>
    \E date \in ShownDays :
      probe.display = StampText(date, probe.hours, probe.minutes)

\* C13: converting calendar fields with pacificTimeToUtc (source offset -8)
\* and rendering the instant with utcToBeijingTimeString (target offset +8)
\* gives the original wall-clock time moved forward by 16 hours: the minutes
\* are the original minutes, the hour is the original hour plus 16 modulo 24,
\* and the date is the same day for hours before 8 and the next day otherwise.
C13_SixteenHoursOn ==
  (probe.fn = "pacificTimeToUtc" /\ probe.returned /\ probe.variant = "pst") =>
    probe.display =
      StampText(CivilFromDays(DaysFromCivil(probe.year, probe.month, probe.day)
                                + (IF probe.hours < 8 THEN 0 ELSE 1)),
                (probe.hours + 16) % 24, probe.minutes)

\* C13, the case: 16:30 on 14 March 2025 has been converted and rendered
C13_AfternoonShown ==
  /\ probe.fn = "pacificTimeToUtc"
  /\ probe.returned
  /\ probe.variant = "pst"
  /\ probe.month = 3
  /\ probe.day = 14
  /\ probe.hours = 16
  /\ probe.minutes = 30
  /\ probe.display = "2025-03-15 08:30"

ParsedTwice == probe.fn = "ParseRow" /\ probe.second # NotParsed

C15_NoAttemptWithoutCredentials ==
  (job.id # 0 /\ ~HasCredentials(job.emailConfig)) =>
    /\ inv.kind # "idle" =>
         /\ inv.i = 0
         /\ inv.waits = 0
         /\ inv.failedCount = 0
         /\ inv.updatedJob.tasks = job.tasks
    /\ \A i \in 1..Len(job.tasks) : job.tasks[i].status = "pending"
    /\ resp.kind = "result" => resp.failed = 0

\* C15, the case: POST /api/send without credentials has gone through a task
C15_FailedTaskByTask ==
  /\ job.id # 0
  /\ ~HasCredentials(job.emailConfig)
  /\ inv.kind = "send"
  /\ inv.i >= 1
  /\ inv.waits = inv.i
  /\ inv.failedCount = inv.i
  /\ \E i \in 1..Len(job.tasks) :
       /\ inv.updatedJob.tasks[i].status = "failed"
       /\ inv.updatedJob.tasks[i].error = "Missing email credentials (user or password)"

\* the step of poll p in which the transport accepts the row at k
SendsRow(p) == polls[p].pc = "send" /\ polls'[p] # polls[p] /\ delivered' # delivered

\* a step of poll p within the recording of the row it sent
RecordsRow(p) == polls[p].pc = "record" /\ polls'[p] # polls[p]

\* C16: a failure of the scheduled_emails store or of the history ledger
\* store during or after a successful send never changes the outcome of that
\* send: the poll counts the row as a success and never as a failure, the
\* step never writes `failed` to the row, the recording changes neither the
\* tally nor any row, and the poll goes on to the next row.
C16_SentWhateverTheStore ==
  [][\A p \in Polls :
       /\ SendsRow(p) =>
            /\ polls'[p].success = polls[p].success + 1
            /\ polls'[p].failed = polls[p].failed
            /\ polls'[p].pc = "record"
            /\ polls'[p].k = polls[p].k
            /\ scheduled'[polls[p].due[polls[p].k]].status
                 \in {"sent", scheduled[polls[p].due[polls[p].k]].status}
       /\ RecordsRow(p) =>
            /\ scheduled' = scheduled
            /\ \/ /\ polls'[p].pc = "record"
                  /\ polls'[p].k = polls[p].k
                  /\ polls'[p].success = polls[p].success
                  /\ polls'[p].failed = polls[p].failed
               \/ /\ polls[p].k = Len(polls[p].due)
                  /\ polls'[p] = IdlePoll
               \/ /\ polls[p].k < Len(polls[p].due)
                  /\ polls'[p].pc = "send"
                  /\ polls'[p].k = polls[p].k + 1
                  /\ polls'[p].success = polls[p].success
                  /\ polls'[p].failed = polls[p].failed]_vars

\* C16, the case: a poll sent its first row, both the status write and the
\* ledger write failed, and the poll is at its second row with the first
\* counted as a success
C16_BothStoresFailed ==
  \E p \in Polls :
    /\ polls[p].pc = "send"
    /\ polls[p].k = 2
    /\ polls[p].success = 1
    /\ polls[p].failed = 0
    /\ scheduled[polls[p].due[1]].status = "pending"
    /\ scheduled[polls[p].due[1]].attempts = 1
    /\ Delivered(NormalizeEmail(scheduled[polls[p].due[1]].to_email)) = 1
    /\ history = <<>>

\* C17: a row of scheduled_emails whose delivery attempt failed is never
\* handed to the transport again, also when the write of its status failed:
\* every attempt on a row but its last was accepted by the transport, so the
\* transport accepted at least attempts - 1 messages for the row's address.
C17_NoSecondAttemptAfterFailure ==
  \A id \in 1..Len(scheduled) :
    scheduled[id].attempts >= 2 =>
      Delivered(NormalizeEmail(scheduled[id].to_email)) >= scheduled[id].attempts - 1

\* C17, the case: a row was handed to the transport twice and the transport
\* accepted nothing for its address
C17_FailedTwice ==
  \E id \in 1..Len(scheduled) :
    /\ scheduled[id].attempts = 2
    /\ Delivered(NormalizeEmail(scheduled[id].to_email)) = 0

\* poll p runs its query in this step and finds rows
RunsQuery(p) == polls[p].pc = "idle" /\ polls'[p].pc = "send"

\* C18: one poll invocation attempts at most 20 rows of scheduled_emails,
\* all of them pending and due when the poll ran its query, in ascending
\* order of scheduled_for; a row is handed to the transport only as the next
\* row of such a query result.
C18_AtMostTwentyDueInOrder ==
  [][/\ \A p \in Polls :
          /\ polls'[p].processed <= 20
          /\ RunsQuery(p) =>
               /\ Len(polls'[p].due) <= 20
               /\ \A n \in 1..Len(polls'[p].due) :
                    /\ polls'[p].due[n] \in 1..Len(scheduled)
                    /\ scheduled[polls'[p].due[n]].status = "pending"
                    /\ scheduled[polls'[p].due[n]].scheduled_for <= now
                    /\ \A m \in 1..(n - 1) :
                         /\ polls'[p].due[m] # polls'[p].due[n]
                         /\ scheduled[polls'[p].due[m]].scheduled_for
                              <= scheduled[polls'[p].due[n]].scheduled_for
          /\ (polls[p].pc # "idle" /\ polls'[p].pc # "idle") =>
               polls'[p].due = polls[p].due
     /\ \A id \in 1..Len(scheduled) :
          scheduled'[id].attempts # scheduled[id].attempts =>
            /\ scheduled'[id].attempts = scheduled[id].attempts + 1
            /\ \E p \in Polls :
                 /\ polls[p].pc = "send"
                 /\ polls[p].due[polls[p].k] = id
                 /\ polls[p].processed = polls[p].k - 1]_vars

\* C18, the case: a poll is at the twentieth and last row of its query
\* result while a row that was pending and due has not been selected
C18_TwentyOfMore ==
  \E p \in Polls :
    /\ polls[p].pc = "send"
    /\ polls[p].k = 20
    /\ Len(polls[p].due) = 20
    /\ \E id \in 1..Len(scheduled) :
         /\ \A n \in 1..20 : polls[p].due[n] # id
         /\ scheduled[id].status = "pending"
         /\ scheduled[id].scheduled_for <= now
         /\ scheduled[id].attempts = 0

PendingAndDue(id) ==
  /\ id <= Len(scheduled)
  /\ scheduled[id].status = "pending"
  /\ scheduled[id].scheduled_for <= now

HandedAndLeft(id) ==
  /\ id <= Len(scheduled)
  /\ scheduled[id].attempts >= 1
  /\ scheduled[id].status # "pending"

UploadsWithCredentials == job'.id # job.id /\ job'.emailConfig

\* the tasks of the upload whose instant is after the clock reading of the step
FutureTasks == SelectSeq(upload'.tasks, LAMBDA t : t.scheduledTimestamp > now)

\* C20: an upload that carries credentials, with a store that answers, adds
\* one row to scheduled_emails (status pending, the task's instant, the Job's
\* id) for every task whose instant is in the future at upload time, in task
\* order, and none for a task that is due.
C20_RecordPerFutureTask ==
  [][UploadsWithCredentials =>
       /\ Len(scheduled') = Len(scheduled) + Len(FutureTasks)
       /\ \A i \in 1..Len(FutureTasks) :
            /\ Len(scheduled) + i <= Len(scheduled')
            /\ scheduled'[Len(scheduled) + i].to_email = FutureTasks[i].to
            /\ scheduled'[Len(scheduled) + i].scheduled_for = FutureTasks[i].scheduledTimestamp
            /\ scheduled'[Len(scheduled) + i].status = "pending"
            /\ scheduled'[Len(scheduled) + i].job_id = job'.id]_vars

\* C20, the case: a sheet whose only dated task is ten seconds ahead was
\* uploaded with credentials, and no row was added
C20_TenSecondsAheadNotSaved ==
  /\ job.id # 0
  /\ job.emailConfig
  /\ now = DueInstant - 10000
  /\ \E i \in 1..Len(upload.tasks) : upload.tasks[i].scheduledTimestamp = DueInstant
  /\ upload.scheduledCount = 0
  /\ ~upload.scheduledSaved
  /\ scheduled = <<>>

\* C20, the half that holds: every row an upload adds is pending, belongs to
\* the Job and is for a task whose instant is in the future at upload time
C20_NoRecordForDueTask ==
  [][job'.id # job.id =>
       \A n \in (Len(scheduled) + 1)..Len(scheduled') :
         /\ scheduled'[n].status = "pending"
         /\ scheduled'[n].job_id = job'.id
         /\ scheduled'[n].scheduled_for > now
         /\ \E i \in 1..Len(upload'.tasks) :
              /\ upload'.tasks[i].to = scheduled'[n].to_email
              /\ upload'.tasks[i].scheduledTimestamp = scheduled'[n].scheduled_for]_vars

\* the transport calls a dispatch invocation has made so far
TransportCalls == Len(SelectSeq(inv.results, LAMBDA r : ~r.skipped))

LoopDone == inv.kind \in {"send", "stream"} /\ inv.i = Len(inv.tasksToSend)

\* C21: when the loop of a dispatch invocation is over, it has taken a
\* pacing wait between every two consecutive transport calls, so at least one
\* less than the transport calls, and none after the last task, so at most
\* one less than the tasks of the invocation.
C21_WaitsBetweenCalls ==
  LoopDone =>
    /\ inv.waits >= TransportCalls - 1
    /\ inv.waits <= Len(inv.tasksToSend) - 1

\* C21, the case: POST /api/send is through its loop and has waited once
\* for every task, the last one included
C21_WaitedAfterLast ==
  /\ inv.kind = "send"
  /\ inv.i = Len(inv.tasksToSend)
  /\ TransportCalls = inv.i
  /\ inv.waits = inv.i

\* C21 for send-stream and the poller, which wait only before a further task
C21_StreamAndPollWaits ==
  /\ (LoopDone /\ inv.kind = "stream") =>
       /\ inv.waits >= TransportCalls - 1
       /\ inv.waits <= Len(inv.tasksToSend) - 1
  /\ \A p \in Polls : polls[p].pc # "idle" => polls[p].waits = polls[p].k - 1

\* the step in which send-stream deals with a task whose address the
\* deliverability check rejects
RejectsTask ==
  /\ inv.kind = "stream"
  /\ inv'.kind = "stream"
  /\ inv'.i = inv.i + 1
  /\ inv'.results[inv'.i].skipped

\* C22: when the deliverability check rejects a selected task's address, the
\* task becomes failed with the check's reason as its error, the transport is
\* not called and no pacing wait is taken for it, nothing of it goes to the
\* ledger, and the invocation goes on with the next task.
C22_RejectedWithoutSend ==
  [][/\ RejectsTask =>
          /\ inv'.updatedJob.tasks[inv.tasksToSend[inv'.i]].status = "failed"
          /\ inv'.updatedJob.tasks[inv.tasksToSend[inv'.i]].error
               \in ValidationOutcomes(job.tasks[inv.tasksToSend[inv'.i]].to) \ {""}
          /\ ~inv'.results[inv'.i].success
          /\ delivered' = delivered
          /\ inv'.waits = inv.waits
          /\ inv'.successCount = inv.successCount
          /\ history' = history
          /\ recorders' = recorders
          /\ inv'.tasksToSend = inv.tasksToSend
     /\ (DispatchEnds /\ recorders' # recorders) =>
          /\ Len(recorders') = Len(recorders) + 1
          /\ Len(recorders'[Len(recorders')].todo)
               = Len(SelectSeq(inv.results, LAMBDA r : r.success /\ ~r.skipped))]_vars

\* C22, the case: send-stream had its first task rejected for its domain,
\* took no wait, and went on to hand the second one to the transport
C22_RejectedThenSent ==
  /\ inv.kind = "stream"
  /\ inv.i = 2
  /\ inv.results[1].skipped
  /\ inv.updatedJob.tasks[inv.tasksToSend[1]].status = "failed"
  /\ inv.updatedJob.tasks[inv.tasksToSend[1]].error = "invalid domain"
  /\ ~inv.results[2].skipped
  /\ inv.results[2].success
  /\ inv.waits = 0

\* the result a Job carries is the count of its tasks by status
ResultIsRecount(j) ==
  j.result # NoResult =>
    /\ j.result.total = Len(j.tasks)
    /\ j.result.success = CountStatus(j.tasks, "sent")
    /\ j.result.failed = CountStatus(j.tasks, "failed")
    /\ j.result.total = j.result.success + j.result.failed + CountStatus(j.tasks, "pending")

\* C23: whenever a Job carries an aggregate result, in the client's hands or
\* in an invocation under way, total is the number of its tasks, success the
\* number of its sent tasks and failed the number of its failed tasks, so
\* total = success + failed + the number of pending tasks.
C23_ResultIsRecount ==
  /\ ResultIsRecount(job)
  /\ ResultIsRecount(inv.updatedJob)
  /\ job.status \in {"completed", "failed"} => job.result # NoResult

\* C23, the case: a Job of two tasks carries its result after a second
\* invocation that dealt with one task, one task sent and one failed
C23_ClosedBySecondInvocation ==
  /\ Returned
  /\ Len(job.tasks) = 2
  /\ resp.total = 1
  /\ job.result # NoResult
  /\ job.result.success = 1
  /\ job.result.failed = 1

\* the value a row carries under one of the labels, trimmed
Carried(row, names) ==
  LET held == {n \in 1..Len(names) : names[n] \in DOMAIN row /\ row[names[n]] # ""}
  IN IF held = {} THEN "" ELSE Trim(row[names[CHOOSE n \in held : \A m \in held : n <= m]])

SentMarked(row) ==
  Trim(ToLowerCase(Carried(row, SentStatusNames))) \in SentMarkers

\* the row is not marked as sent, carries address, subject and body, and its
\* address is of valid format
YieldsTask(row) ==
  /\ ~SentMarked(row)
  /\ Carried(row, EmailNames) # ""
  /\ isValidEmail(Carried(row, EmailNames))
  /\ Carried(row, SubjectNames) # ""
  /\ Carried(row, ContentNames) # ""

\* what the parser says of a row that is not marked and yields no task
RowMessage(row, rowNum) ==
  "Row " \o ToString(rowNum) \o ": " \o
    (IF Carried(row, EmailNames) = "" THEN "Missing email"
     ELSE IF ~isValidEmail(Carried(row, EmailNames))
          THEN "Invalid email: " \o Carried(row, EmailNames)
     ELSE IF Carried(row, SubjectNames) = "" THEN "Missing subject"
     ELSE "Missing content")

Parsed == probe.fn = "parseExcelBuffer" /\ probe.returned

TaskRowNumbers == SelectSeq([i \in 1..Len(probe.data) |-> i], LAMBDA i : YieldsTask(probe.data[i]))

RejectedRowNumbers ==
  SelectSeq([i \in 1..Len(probe.data) |-> i],
            LAMBDA i : ~YieldsTask(probe.data[i]) /\ ~SentMarked(probe.data[i]))

\* C24: the parser returns success exactly when some row yields a task, with
\* the tasks of exactly those rows in row order and no message of a rejected
\* row; when no row yields a task it returns failure with the row-numbered
\* messages of the rejected rows joined.
C24_PartialSuccess ==
  Parsed =>
    /\ probe.result.success <=> TaskRowNumbers # <<>>
    /\ probe.result.success =>
         /\ probe.result.error = ""
         /\ Len(probe.result.tasks) = Len(TaskRowNumbers)
         /\ \A n \in 1..Len(TaskRowNumbers) :
              /\ probe.result.tasks[n].to = Carried(probe.data[TaskRowNumbers[n]], EmailNames)
              /\ probe.result.tasks[n].subject = Carried(probe.data[TaskRowNumbers[n]], SubjectNames)
              /\ probe.result.tasks[n].content = Carried(probe.data[TaskRowNumbers[n]], ContentNames)
    /\ (~probe.result.success /\ probe.data # <<>>) =>
         /\ probe.result.tasks = <<>>
         /\ probe.result.error =
              "No valid tasks. "
                \o JoinErrors([n \in 1..Len(RejectedRowNumbers) |->
                                 RowMessage(probe.data[RejectedRowNumbers[n]],
                                            RejectedRowNumbers[n] + 1)])

\* C24, the case: a sheet of a rejected row between two good ones was parsed
\* into the two tasks
C24_TwoOfThree ==
  /\ Parsed
  /\ Len(probe.data) = 3
  /\ YieldsTask(probe.data[1])
  /\ ~YieldsTask(probe.data[2]) /\ ~SentMarked(probe.data[2])
  /\ YieldsTask(probe.data[3])
  /\ probe.result.success
  /\ Len(probe.result.tasks) = 2
  /\ probe.result.tasks[2].to = "bob@y.org"

SentMarkedRowNumbers ==
  SelectSeq([i \in 1..Len(probe.data) |-> i], LAMBDA i : SentMarked(probe.data[i]))

\* C25: a row marked as sent yields no task and is counted as skipped, and it
\* brings no error: a parsed sheet none of whose rows is rejected returns no
\* error, also when a marked row is its only row.
C25_SentRowIsNoError ==
  (Parsed /\ probe.data # <<>>) =>
    /\ Len(probe.result.tasks) <= Len(probe.data) - Len(SentMarkedRowNumbers)
    /\ probe.result.skippedCount = Len(SentMarkedRowNumbers)
    /\ RejectedRowNumbers = <<>> => probe.result.success /\ probe.result.error = ""

\* C25, what does hold: the marked rows are left out and counted, and no
\* message is written for them
C25_ExcludedAndCounted ==
  (Parsed /\ probe.data # <<>>) =>
    /\ Len(probe.result.tasks) <= Len(probe.data) - Len(SentMarkedRowNumbers)
    /\ probe.result.skippedCount = Len(SentMarkedRowNumbers)
    /\ ~probe.result.success =>
         probe.result.error =
           "No valid tasks. "
             \o JoinErrors([n \in 1..Len(RejectedRowNumbers) |->
                              RowMessage(probe.data[RejectedRowNumbers[n]],
                                         RejectedRowNumbers[n] + 1)])

\* C25, the case: the only row of the sheet is marked as sent, and the sheet
\* is refused
C25_OnlyRowMarked ==
  /\ Parsed
  /\ Len(probe.data) = 1
  /\ SentMarked(probe.data[1])
  /\ ~probe.result.success
  /\ probe.result.error = "No valid tasks. "
  /\ probe.result.skippedCount = 1

\* poll p starts on the rows its query returned
StartsPoll(p) == polls[p].pc = "idle" /\ polls'[p].pc = "send"

\* the starts write no claim: a poll that
\* starts works on every pending due row of the table (up to the limit),
\* whether or not another poll holds the row, and writes nothing to the table;
\* a dispatch that starts takes its tasks from the Job it was given alone and
\* writes nothing to the table either.
C26_NoClaimStep ==
  [][ /\ \A p \in Polls :
           StartsPoll(p) =>
             /\ polls'[p].due = getDueEmails(scheduled, now, PollLimit)
             /\ scheduled' = scheduled
      /\ (inv.kind = "idle" /\ inv'.kind \in {"send", "stream"}) =>
           /\ scheduled' = scheduled
           /\ job' = job
           /\ \A i \in 1..Len(job.tasks) :
                (job.tasks[i].status = "pending" /\ job.tasks[i].scheduledFor <= now)
                  => \E n \in 1..Len(inv'.tasksToSend) : inv'.tasksToSend[n] = i
    ]_vars

\* C26: while a poll holds a pending due row that it has not yet sent, every
\* idle poll can still start on that very row: nothing claims or locks the row
\* between its selection and its sending.
C26_HeldRowCanBeTakenAgain ==
  \A p \in Polls, q \in Polls, id \in 1..Len(scheduled) :
    ( /\ id \in Remaining(polls[p])
      /\ polls[q].pc = "idle"
      /\ scheduled[id].status = "pending"
      /\ \A other \in 1..Len(scheduled) : Taken(other) < MaxAttempts )
    => ENABLED (PollStart(q, TRUE) /\ id \in Remaining(polls'[q]))

\* C26, the case: the one record of the table was handed to the transport by
\* two polls and accepted both times, the Job not having been dispatched
C26_RecordSentTwice ==
  /\ Len(scheduled) = 1
  /\ scheduled[1].attempts = 2
  /\ scheduled[1].status = "sent"
  /\ Delivered(NormalizeEmail(scheduled[1].to_email)) = 2
  /\ \A i \in 1..Len(job.tasks) : job.tasks[i].status = "pending"

\* C26, the other case: the task was sent through its Job and its record was
\* sent by a poll
C26_SentByJobAndByPoll ==
  /\ Len(job.tasks) = 1
  /\ Len(scheduled) = 1
  /\ job.tasks[1].status = "sent"
  /\ scheduled[1].status = "sent"
  /\ scheduled[1].attempts = 1
  /\ Delivered(NormalizeEmail(scheduled[1].to_email)) = 2

\* C27: a step of a Job dispatch leaves every record of the table as it was,
\* and a step of a poll leaves the Job and the Job in flight as they were: a
\* step that changes a task of the Job changes no record, and a step that
\* changes a record changes no task.
C27_SeparateStores ==
  [][ /\ (inv' # inv \/ resp' # resp \/ recorders' # recorders) => scheduled' = scheduled
      /\ polls' # polls => (job' = job /\ inv' = inv)
      /\ (\E id \in 1..Len(scheduled) : scheduled'[id] # scheduled[id])
           => (job' = job /\ inv' = inv)
      /\ (job'.id = job.id /\ job' # job) => scheduled' = scheduled
    ]_vars

\* C27, the case: a task was sent through its Job ahead of its time, and its
\* record is still pending and untouched
C27_SentAheadStillPending ==
  /\ Returned
  /\ Len(job.tasks) = 1
  /\ Len(scheduled) = 1
  /\ job.tasks[1].status = "sent"
  /\ job.tasks[1].scheduledFor > now
  /\ scheduled[1].job_id = job.id
  /\ scheduled[1].status = "pending"
  /\ scheduled[1].attempts = 0

Reverse(s) == [i \in 1..Len(s) |-> s[Len(s) + 1 - i]]

\* the subjects a list of entries holds for the address k, in list order
SubjectsFor(emails, k) ==
  LET mine == SelectSeq(emails, LAMBDA e : NormalizeEmail(e.email) = k)
  IN [n \in 1..Len(mine) |-> mine[n].subject]

\* recordSentEmail applied alone to the ledger h, entry after entry
RECURSIVE RecordEach(_, _)
RecordEach(h, emails) ==
  IF emails = <<>> THEN h
  ELSE RecordEach(WriteHistory(h, NormalizeEmail(emails[1].email), emails[1].subject,
                               SelectHistory(h, NormalizeEmail(emails[1].email))),
                  Tail(emails))

\* the one call has ended
BatchEnded == probe.fn = "record" /\ Len(probe.calls) = 1 /\ recorders = <<>>

\* C28: when a recordSentEmails call that ran alone has ended, the ledger is
\* what recordSentEmail applied to each entry in list order leaves: an address
\* that occurs k times in the list has its count raised by k and its k
\* subjects put in front of the earlier ones, the last entry's first (the list
\* being cut at 5), and no other row is changed.
C28_BatchIsEachInOrder ==
  BatchEnded =>
    /\ history = RecordEach(probe.before, probe.calls[1])
    /\ DOMAIN history =
         DOMAIN probe.before \cup {NormalizeEmail(probe.calls[1][n].email) :
                                     n \in 1..Len(probe.calls[1])}
    /\ \A k \in DOMAIN history :
         LET old == SelectHistory(probe.before, k)
             new == SubjectsFor(probe.calls[1], k)
             all == Reverse(new) \o old.subjects
         IN /\ history[k].sent_count = old.sent_count + Len(new)
            /\ history[k].subjects = SubSeq(all, 1, IF Len(all) < 5 THEN Len(all) ELSE 5)

\* C28, the case: the call held the mailbox three times, written in two ways,
\* over a ledger that knew it
C28_ThreeOfOneMailbox ==
  /\ BatchEnded
  /\ probe.store = "file"
  /\ Len(probe.calls[1]) = 3
  /\ Len(SubjectsFor(probe.calls[1], "ann@x.io")) = 3
  /\ probe.calls[1][1].subject # probe.calls[1][3].subject
  /\ probe.before # <<>>
  /\ history["ann@x.io"].sent_count = probe.before["ann@x.io"].sent_count + 3
  /\ history["ann@x.io"].subjects[1] = probe.calls[1][3].subject

\* the entries of the one call that are recorded by now
Recorded ==
  SubSeq(probe.calls[1], 1,
         Len(probe.calls[1]) - (IF recorders = <<>> THEN 0 ELSE Len(recorders[1].todo)))

\* C29: at every point of a sequence of record operations, the subjects of
\* every ledger row are at most 5, as many as min(sent_count, 5), and are the
\* subjects of the latest sends to the address, the latest first: the ones
\* recorded so far in reverse order, then the earlier ones, cut at 5.
C29_LatestFiveFirst ==
  (probe.fn = "record" /\ Len(probe.calls) = 1) =>
    \A k \in DOMAIN history :
      /\ Len(history[k].subjects) <= 5
      /\ Len(history[k].subjects) =
           IF history[k].sent_count < 5 THEN history[k].sent_count ELSE 5
      /\ \E all \in {Reverse(SubjectsFor(Recorded, k)) \o SelectHistory(probe.before, k).subjects} :
           history[k].subjects = SubSeq(all, 1, IF Len(all) < 5 THEN Len(all) ELSE 5)

\* C29, the case: two subjects were recorded for a row whose list was full,
\* and the two oldest were dropped
C29_OldestDropped ==
  /\ BatchEnded
  /\ Len(probe.calls[1]) = 2
  /\ "ann@x.io" \in DOMAIN probe.before
  /\ Len(probe.before["ann@x.io"].subjects) = 5
  /\ history["ann@x.io"].sent_count = 8
  /\ history["ann@x.io"].subjects =
       <<probe.calls[1][2].subject, probe.calls[1][1].subject, "p5", "p4", "p3">>

\* C30: for every task an upload creates, the Job task's scheduledFor is the
\* parser's scheduledTimestamp of the same row, the two agree on whether the
\* task is immediate, and a task that is immediate in the Job has no record
\* among the rows the upload adds.
C30_JobAndRecordAgree ==
  [][job'.id # job.id =>
       \A i \in 1..Len(job'.tasks) :
         /\ job'.tasks[i].scheduledFor = upload'.tasks[i].scheduledTimestamp
         /\ job'.tasks[i].scheduledFor <= now <=> upload'.tasks[i].scheduledTimestamp <= now
         /\ job'.tasks[i].scheduledFor <= now =>
              \A n \in (Len(scheduled) + 1)..Len(scheduled') :
                ~ /\ scheduled'[n].to_email = job'.tasks[i].to
                  /\ scheduled'[n].subject = job'.tasks[i].subject]_vars

\* C30, the case: the task uploaded ten minutes ahead is due in the Job twelve
\* seconds after its record is
C30_TwelveSecondsApart ==
  /\ job.id # 0
  /\ Len(scheduled) = 1
  /\ scheduled[1].scheduled_for = DueInstant
  /\ \E i \in 1..Len(job.tasks) :
       /\ job.tasks[i].to = scheduled[1].to_email
       /\ job.tasks[i].subject = scheduled[1].subject
       /\ upload.tasks[i].scheduledTimestamp = DueInstant
       /\ job.tasks[i].scheduledFor = DueInstant + 12000

====
